---- MODULE Spec2Model ----
(***************************************************************************)
(* Model of the AI Modeler add-on: the plan executor (executor.py,         *)
(* materials.py, schemas.py), the rule-based planner (rules_planner.py),   *)
(* the remote planner client (planner_client.py, http_client.py) and the   *)
(* generate operator that ties them together (operators.py).               *)
(*                                                                         *)
(* The host scene (bpy) is modelled by name: objects is the scene's object *)
(* table, materials is bpy.data.materials.  Lengths are fixed-point        *)
(* numbers: a Python float x is stored as the integer x * FP.              *)
(***************************************************************************)
EXTENDS Integers, Sequences, FiniteSets, TLC

VARIABLES
    objects,          \* scene.objects / bpy.data.objects: name -> object
    materials,        \* bpy.data.materials: name -> shading parameters
    activeCollection, \* collection that receives new primitives
    presetFile,       \* presets/materials.json on disk ("missing" or "present")
    PRESETS,          \* materials._PRESETS
    fileReads,        \* number of times the preset file was opened
    plan,             \* the ModelingPlan handed to execute_plan
    pc,               \* position inside execute_plan
    index,            \* loop index of execute_plan (1-based)
    step_ctx,         \* _StepContext
    diff,             \* local diff
    status,           \* local status
    error_msg,        \* local error_msg
    result,           \* the returned ExecutionResult
    raised,           \* exception that left execute_plan ("" when none)
    invoked,          \* history: step indices whose handler was invoked
    failedAt,         \* history: index of the failing step (0 when none)
    rollbacks,        \* history: number of _rollback calls
    removed,          \* history: what _rollback removed, in the order of removal
    failure,          \* history: the scene and context before and after the failing handler
    objects0,         \* history: objects when execute_plan was entered
    materials0,       \* history: materials when execute_plan was entered
    plan0,            \* history: the plan as it was handed in
    bpyAvailable,     \* whether "import bpy" succeeded in executor.py
    loads,            \* history: the calls made to the materials module's catalog functions
    focalPrompt,      \* the prompt text under study
    focalUnits,       \* the units argument that goes with it
    genPlan,          \* the plan RulesPlanner.generate_plan returned last
    uuids,            \* number of uuid4 values drawn so far
    focalCalls,       \* history: generate_plan calls made with (focalPrompt, focalUnits)
    seenSteps,        \* history: the steps lists those calls returned
    remote,           \* whether the add-on preferences hold a planner base_url
    cyc,              \* position inside AIModelerGenerateOperator.execute
    attempts,         \* HttpClient.post: request attempts made
    lastOutcome,      \* HttpClient.post: how the last attempt ended
    postResult,       \* HttpClient.post: how the call ended ("pending" before)
    response,         \* the decoded body handed back by HttpClient.post
    clientResult,     \* PlannerClient.generate_plan: how the call ended
    cyclePlan,        \* the operator's local plan
    usedRemote,       \* the operator's local used_remote
    executed,         \* history: execute_plan calls made in this cycle
    requestsAtCall    \* history: request attempts made when execute_plan was called

vars == <<objects, materials, activeCollection, presetFile, PRESETS, fileReads,
          plan, pc, index, step_ctx, diff, status, error_msg, result, raised,
          invoked, failedAt, rollbacks, removed, failure, objects0, materials0, plan0, bpyAvailable, loads,
          focalPrompt, focalUnits, genPlan, uuids, focalCalls, seenSteps,
          remote, cyc, attempts, lastOutcome, postResult, response, clientResult,
          cyclePlan, usedRemote, executed, requestsAtCall>>

\* the planner's variables
plannerVars == <<focalPrompt, focalUnits, genPlan, uuids, focalCalls, seenSteps>>

\* the executor's variables
executorVars == <<objects, materials, activeCollection, presetFile, PRESETS, fileReads,
                  plan, pc, index, step_ctx, diff, status, error_msg, result, raised,
                  invoked, failedAt, rollbacks, removed, failure, objects0, materials0, plan0>>

\* the variables of the operator, the planner client and the HTTP client
cycleVars == <<remote, cyc, attempts, lastOutcome, postResult, response, clientResult,
               cyclePlan, usedRemote, executed, requestsAtCall>>

\* the variables execute_plan neither reads nor writes
aux == <<bpyAvailable, loads, plannerVars, cycleVars>>

----------------------------------------------------------------------------
(* Bounds and value encodings *)

MaxSteps == 3

MaxWords == 3

MaxCalls == 3

FP == 100 * 1000

\* Python None in the error field of a result
None == [none |-> TRUE]

\* what dict.get returns for an absent string-valued key (Python None)
NoValue == "<None>"

\* a parameter value that is not a str (e.g. a number given as "name")
NonString == "<non-str>"

EmptyFn == [x \in {} |-> 0]

Remove(f, k) == [x \in DOMAIN f \ {k} |-> f[x]]

\* dict.get(key, default)
Get(params, key, default) == IF key \in DOMAIN params THEN params[key] ELSE default

\* Python truthiness test "not v" for an optional string
Falsy(v) == v = NoValue \/ v = ""

\* str.upper() on the unit tokens that occur
Upper(u) ==
    CASE u = "m" -> "M"
      [] u = "cm" -> "CM"
      [] u = "mm" -> "MM"
      [] u = "in" -> "IN"
      [] OTHER -> u

----------------------------------------------------------------------------
(* The host scene: what the bpy calls used by the executor do *)

\* the world the handlers act on, threaded through the pure operators below
World == [objects |-> objects, materials |-> materials,
          PRESETS |-> PRESETS, fileReads |-> fileReads, removed |-> removed]

Suffixes == <<".001", ".002", ".003", ".004", ".005", ".006">>

\* names in an ID collection are unique: a taken name gets a numeric suffix
UniqueName(base, taken) ==
    IF base \notin taken THEN base
    ELSE LET i == CHOOSE i \in 1..Len(Suffixes) :
                     /\ (base \o Suffixes[i]) \notin taken
                     /\ \A j \in 1..(i - 1) : (base \o Suffixes[j]) \in taken
         IN base \o Suffixes[i]

NewObject(type, coll, geom, by) ==
    [type |-> type, coll |-> coll, geom |-> geom, modifiers |-> <<>>,
     slots |-> <<>>, by |-> by]

\* bpy.ops.mesh.primitive_*_add: a new mesh object, in the active collection,
\* under the primitive's default name; it becomes the active object
PrimitiveAdd(w, base, geom, by) ==
    LET n == UniqueName(base, DOMAIN w.objects)
    IN [w |-> [w EXCEPT !.objects =
                  (n :> NewObject("MESH", activeCollection, geom, by)) @@ w.objects],
        name |-> n]

\* obj.name = name: the object is renamed, to a unique variant when taken
Rename(w, cur, name) ==
    LET n == UniqueName(name, DOMAIN w.objects \ {cur})
    IN [w |-> [w EXCEPT !.objects = (n :> w.objects[cur]) @@ Remove(w.objects, cur)],
        name |-> n]

\* bpy.data.objects.new(name, None) + scene.collection.objects.link: an empty
\* in the scene's master collection
EmptyAdd(w, name, geom, by) ==
    LET n == UniqueName(name, DOMAIN w.objects)
    IN [w |-> [w EXCEPT !.objects =
                  (n :> NewObject("EMPTY", "Master", geom, by)) @@ w.objects],
        name |-> n]

ModifierNames(obj) == {obj.modifiers[i].name : i \in 1..Len(obj.modifiers)}

\* obj.modifiers.new(name, type): appended under a name unique on the object
ModifierNew(w, objName, name, type, width, count, ref, by) ==
    LET obj == w.objects[objName]
        n   == UniqueName(name, ModifierNames(obj))
        m   == [name |-> n, type |-> type, width |-> width, count |-> count,
                object |-> ref, by |-> by]
    IN [w |-> [w EXCEPT !.objects[objName].modifiers = Append(obj.modifiers, m)],
        name |-> n]

\* only geometry objects take modifiers; on an empty modifiers.new yields
\* nothing and the handler's next attribute assignment raises
SupportsModifiers(obj) == obj.type = "MESH"

\* obj.modifiers.remove(modifier)
ModifierRemove(w, objName, modName) ==
    LET ms == w.objects[objName].modifiers
        keep == SelectSeq(ms, LAMBDA m : m.name # modName)
    IN [w EXCEPT !.objects[objName].modifiers = keep]

\* bpy.data.objects.remove(obj): the object goes, and modifiers of other
\* objects that pointed at it lose their reference
ObjectRemove(w, name) ==
    LET rest == Remove(w.objects, name)
        clear(ms) == [i \in 1..Len(ms) |->
                        IF ms[i].object = name THEN [ms[i] EXCEPT !.object = ""]
                        ELSE ms[i]]
    IN [w EXCEPT !.objects =
           [n \in DOMAIN rest |-> [rest[n] EXCEPT !.modifiers = clear(rest[n].modifiers)]]]

----------------------------------------------------------------------------
(* materials.py *)

\* content of presets/materials.json when the file is installed
PresetCatalog ==
    [metal_brushed |-> [base_color |-> "grey", metallic |-> FP, roughness |-> 3 * (FP \div 10)],
     plastic       |-> [base_color |-> "red", roughness |-> 4 * (FP \div 10)],
     blank         |-> EmptyFn]

\* ensure_material_presets_loaded, on the module state carried in w
ensure_material_presets_loaded(w) ==
    IF DOMAIN w.PRESETS # {} THEN w
    ELSE IF presetFile = "present"
         THEN [w EXCEPT !.PRESETS = PresetCatalog, !.fileReads = @ + 1]
         ELSE [w EXCEPT !.PRESETS = EmptyFn, !.fileReads = @ + 1]

\* get_preset: [ok, w, preset]; not ok stands for AIModelerError
get_preset(w, name) ==
    LET w1 == ensure_material_presets_loaded(w)
        found == name \in DOMAIN w1.PRESETS /\ DOMAIN w1.PRESETS[name] # {}
    IN [ok |-> found, w |-> w1,
        preset |-> IF found THEN w1.PRESETS[name] ELSE EmptyFn]

\* a material as bpy.data.materials.new leaves it, with use_nodes on
DefaultMaterial == [base_color |-> "default", metallic |-> 0, roughness |-> FP \div 2]

\* apply_material_preset configuring the material also when it was found
apply_material_preset_Reconfigure(w, objName, preset_name) ==
    LET gp == get_preset(w, preset_name)
        mat_name == "AI_" \o preset_name
        configured ==
            [base_color |-> Get(gp.preset, "base_color", "white"),
             metallic   |-> Get(gp.preset, "metallic", 0),
             roughness  |-> Get(gp.preset, "roughness", FP \div 2)]
        w2 == [gp.w EXCEPT !.materials = (mat_name :> configured) @@ gp.w.materials]
        obj == w2.objects[objName]
    IN IF ~gp.ok THEN [ok |-> FALSE, w |-> gp.w, exc |-> "unknown preset"]
       ELSE IF obj.type = "EMPTY" THEN [ok |-> FALSE, w |-> w2, exc |-> "no geometry data"]
       ELSE IF Len(obj.slots) > 0
            THEN [ok |-> TRUE, exc |-> "",
                  w |-> [w2 EXCEPT !.objects[objName].slots[1] = mat_name]]
            ELSE [ok |-> TRUE, exc |-> "",
                  w |-> [w2 EXCEPT !.objects[objName].slots = Append(@, mat_name)]]

\* apply_material_preset: [ok, w, exc]
apply_material_preset(w, objName, preset_name) ==
    LET gp == get_preset(w, preset_name)
        mat_name == "AI_" \o preset_name
        isNew == mat_name \notin DOMAIN gp.w.materials
        configured ==
            [base_color |-> Get(gp.preset, "base_color", "white"),
             metallic   |-> Get(gp.preset, "metallic", 0),
             roughness  |-> Get(gp.preset, "roughness", FP \div 2)]
        w2 == IF isNew
              THEN [gp.w EXCEPT !.materials = (mat_name :> configured) @@ gp.w.materials]
              ELSE gp.w
        obj == w2.objects[objName]
    IN IF ~gp.ok THEN [ok |-> FALSE, w |-> gp.w, exc |-> "unknown preset"]
       ELSE IF obj.type = "EMPTY" THEN [ok |-> FALSE, w |-> w2, exc |-> "no geometry data"]
       ELSE IF Len(obj.slots) > 0
            THEN [ok |-> TRUE, exc |-> "",
                  w |-> [w2 EXCEPT !.objects[objName].slots[1] = mat_name]]
            ELSE [ok |-> TRUE, exc |-> "",
                  w |-> [w2 EXCEPT !.objects[objName].slots = Append(@, mat_name)]]

----------------------------------------------------------------------------
(* executor.py: unit conversion and the step handlers *)

\* _convert_length, on fixed-point values
\* _convert_length comparing the unit token as written, without upper()
_convert_length_CaseSensitive(value, unit) ==
    IF unit = NoValue \/ unit = "M" THEN value
    ELSE IF unit = "CM" THEN value \div 100
    ELSE IF unit = "MM" THEN value \div 1000
    ELSE value

_convert_length(value, unit) ==
    IF unit = NoValue \/ Upper(unit) = "M" THEN value
    ELSE IF Upper(unit) = "CM" THEN value \div 100
    ELSE IF Upper(unit) = "MM" THEN value \div 1000
    ELSE value

\* a handler's outcome: it returned (ok) or raised exc; w, ctx and params are
\* the world, the step context and the step's params dict as it left them
Returned(w, ctx, params) ==
    [ok |-> TRUE, w |-> w, ctx |-> ctx, params |-> params, exc |-> ""]

Raised(w, ctx, params, exc) ==
    [ok |-> FALSE, w |-> w, ctx |-> ctx, params |-> params, exc |-> exc]

RegisterObject(ctx, name) ==
    [ctx EXCEPT !.created_objects = Append(@, name)]

RegisterModifier(ctx, objName, modName) ==
    [ctx EXCEPT !.added_modifiers = Append(@, <<objName, modName>>)]

\* _op_add_cube registering the requested name instead of obj.name
_op_add_cube_RequestedName(w, params, ctx, i) ==
    LET size == _convert_length(Get(params, "size", FP), Get(params, "units", NoValue))
        name == Get(params, "name", "AI_Cube")
        made == PrimitiveAdd(w, "Cube", <<size>>, i)
        named == Rename(made.w, made.name, name)
    IN IF name = NonString THEN Raised(made.w, ctx, params, "TypeError")
       ELSE Returned(named.w, RegisterObject(ctx, name), params)

_op_add_cube(w, params, ctx, i) ==
    LET size == _convert_length(Get(params, "size", FP), Get(params, "units", NoValue))
        name == Get(params, "name", "AI_Cube")
        made == PrimitiveAdd(w, "Cube", <<size>>, i)
        named == Rename(made.w, made.name, name)
    IN IF name = NonString THEN Raised(made.w, ctx, params, "TypeError")
       ELSE Returned(named.w, RegisterObject(ctx, named.name), params)

\* _op_add_sphere registering the requested name instead of obj.name
_op_add_sphere_RequestedName(w, params, ctx, i) ==
    LET radius == _convert_length(Get(params, "radius", FP \div 2), Get(params, "units", NoValue))
        name == Get(params, "name", "AI_Sphere")
        made == PrimitiveAdd(w, "Sphere", <<radius>>, i)
        named == Rename(made.w, made.name, name)
    IN IF name = NonString THEN Raised(made.w, ctx, params, "TypeError")
       ELSE Returned(named.w, RegisterObject(ctx, name), params)

_op_add_sphere(w, params, ctx, i) ==
    LET radius == _convert_length(Get(params, "radius", FP \div 2), Get(params, "units", NoValue))
        name == Get(params, "name", "AI_Sphere")
        made == PrimitiveAdd(w, "Sphere", <<radius>>, i)
        named == Rename(made.w, made.name, name)
    IN IF name = NonString THEN Raised(made.w, ctx, params, "TypeError")
       ELSE Returned(named.w, RegisterObject(ctx, named.name), params)

_op_add_cylinder(w, params, ctx, i) ==
    LET radius == _convert_length(Get(params, "radius", FP \div 2), Get(params, "units", NoValue))
        depth == _convert_length(Get(params, "depth", FP), Get(params, "units", NoValue))
        name == Get(params, "name", "AI_Cylinder")
        made == PrimitiveAdd(w, "Cylinder", <<radius, depth>>, i)
        named == Rename(made.w, made.name, name)
    IN IF name = NonString THEN Raised(made.w, ctx, params, "TypeError")
       ELSE Returned(named.w, RegisterObject(ctx, named.name), params)

_op_boolean_difference(w, params, ctx, i) ==
    LET target_name == Get(params, "target", NoValue)
        cutter_name == Get(params, "cutter", NoValue)
    IN IF Falsy(target_name) \/ Falsy(cutter_name)
       THEN Raised(w, ctx, params, "BOOLEAN_DIFFERENCE needs target and cutter")
       ELSE IF target_name \notin DOMAIN w.objects \/ cutter_name \notin DOMAIN w.objects
       THEN Raised(w, ctx, params, "boolean object missing")
       ELSE IF ~SupportsModifiers(w.objects[target_name])
       THEN Raised(w, ctx, params, "AttributeError")
       ELSE LET mod == ModifierNew(w, target_name, "AI_Boolean", "BOOLEAN", 0, 0,
                                   cutter_name, i)
            IN Returned(mod.w, RegisterModifier(ctx, target_name, mod.name), params)

\* _op_array_radial creating and registering its anchor before it looks the
\* source up
_op_array_radial_AnchorFirst(w, params, ctx, i) ==
    LET source_name == Get(params, "source", NoValue)
        count == Get(params, "count", 6)
        radius == _convert_length(Get(params, "radius", FP), Get(params, "units", NoValue))
    IN IF Falsy(source_name)
       THEN Raised(w, ctx, params, "ARRAY_RADIAL needs source")
       ELSE LET empty == EmptyAdd(w, source_name \o "_RadialEmpty", <<radius>>, i)
                ctx1 == RegisterObject(ctx, empty.name)
            IN IF source_name \notin DOMAIN w.objects
               THEN Raised(empty.w, ctx1, params, "source object missing")
               ELSE IF ~SupportsModifiers(empty.w.objects[source_name])
               THEN Raised(empty.w, ctx1, params, "AttributeError")
               ELSE LET mod == ModifierNew(empty.w, source_name, "AI_Array", "ARRAY", 0,
                                           IF count > 1 THEN count ELSE 1, empty.name, i)
                    IN Returned(mod.w, RegisterModifier(ctx1, source_name, mod.name), params)

_op_array_radial(w, params, ctx, i) ==
    LET source_name == Get(params, "source", NoValue)
        count == Get(params, "count", 6)
        radius == _convert_length(Get(params, "radius", FP), Get(params, "units", NoValue))
    IN IF Falsy(source_name)
       THEN Raised(w, ctx, params, "ARRAY_RADIAL needs source")
       ELSE IF source_name \notin DOMAIN w.objects
       THEN Raised(w, ctx, params, "source object missing")
       ELSE LET empty == EmptyAdd(w, source_name \o "_RadialEmpty", <<radius>>, i)
                ctx1 == RegisterObject(ctx, empty.name)
            IN IF ~SupportsModifiers(empty.w.objects[source_name])
               THEN Raised(empty.w, ctx1, params, "AttributeError")
               ELSE LET mod == ModifierNew(empty.w, source_name, "AI_Array", "ARRAY", 0,
                                           IF count > 1 THEN count ELSE 1, empty.name, i)
                    IN Returned(mod.w, RegisterModifier(ctx1, source_name, mod.name), params)

\* _op_bevel reading segments with params.setdefault("segments", 2)
_op_bevel_SetDefault(w, params, ctx, i) ==
    LET target_name == Get(params, "target", NoValue)
        width == _convert_length(Get(params, "width", FP \div 100), Get(params, "units", NoValue))
        segments == Get(params, "segments", 2)
        filled == params @@ [segments |-> 2]
    IN IF Falsy(target_name)
       THEN Raised(w, ctx, params, "BEVEL needs target")
       ELSE IF target_name \notin DOMAIN w.objects
       THEN Raised(w, ctx, params, "bevel object missing")
       ELSE IF ~SupportsModifiers(w.objects[target_name])
       THEN Raised(w, ctx, filled, "AttributeError")
       ELSE LET mod == ModifierNew(w, target_name, "AI_Bevel", "BEVEL", width,
                                   IF segments > 1 THEN segments ELSE 1, "", i)
            IN Returned(mod.w, RegisterModifier(ctx, target_name, mod.name), filled)

_op_bevel(w, params, ctx, i) ==
    LET target_name == Get(params, "target", NoValue)
        width == _convert_length(Get(params, "width", FP \div 100), Get(params, "units", NoValue))
        segments == Get(params, "segments", 2)
    IN IF Falsy(target_name)
       THEN Raised(w, ctx, params, "BEVEL needs target")
       ELSE IF target_name \notin DOMAIN w.objects
       THEN Raised(w, ctx, params, "bevel object missing")
       ELSE IF ~SupportsModifiers(w.objects[target_name])
       THEN Raised(w, ctx, params, "AttributeError")
       ELSE LET mod == ModifierNew(w, target_name, "AI_Bevel", "BEVEL", width,
                                   IF segments > 1 THEN segments ELSE 1, "", i)
            IN Returned(mod.w, RegisterModifier(ctx, target_name, mod.name), params)

_op_set_material(w, params, ctx, i) ==
    LET target_name == Get(params, "target", NoValue)
        preset == Get(params, "preset", NoValue)
    IN IF Falsy(target_name) \/ Falsy(preset)
       THEN Raised(w, ctx, params, "SET_MATERIAL needs target and preset")
       ELSE IF target_name \notin DOMAIN w.objects
       THEN Raised(w, ctx, params, "material object missing")
       ELSE LET ap == apply_material_preset(w, target_name, preset)
            IN IF ap.ok THEN Returned(ap.w, ctx, params)
               ELSE Raised(ap.w, ctx, params, ap.exc)

\* the operation tags _get_handler knows
Handlers == {"ADD_CUBE", "ADD_SPHERE", "ADD_CYLINDER", "BOOLEAN_DIFFERENCE",
             "ARRAY_RADIAL", "BEVEL", "SET_MATERIAL"}

----------------------------------------------------------------------------
(* executor.py: rollback *)

\* history: _rollback removes entry k of its list of created objects
\* (kind "object") or of added modifiers (kind "modifier")
Removed(w, kind, k) == [w EXCEPT !.removed = Append(@, [kind |-> kind, at |-> k])]

\* first loop of _rollback: created objects, last registered first; unlink
\* from the scene's master collection raises when the object is not linked
\* there, and the exception ends _rollback
RECURSIVE RollbackObjects(_, _, _)
RollbackObjects(w, names, k) ==
    IF k = 0 THEN [w |-> w, raised |-> FALSE]
    ELSE IF names[k] \notin DOMAIN w.objects THEN RollbackObjects(w, names, k - 1)
    ELSE IF w.objects[names[k]].coll # "Master" THEN [w |-> w, raised |-> TRUE]
    ELSE RollbackObjects(Removed(ObjectRemove(w, names[k]), "object", k), names, k - 1)

\* second loop of _rollback: added modifiers, in registration order
RECURSIVE RollbackModifiers(_, _, _)
RollbackModifiers(w, mods, k) ==
    IF k > Len(mods) THEN w
    ELSE LET obj_name == mods[k][1]
             modifier_name == mods[k][2]
         IN IF obj_name \notin DOMAIN w.objects THEN RollbackModifiers(w, mods, k + 1)
            ELSE IF modifier_name \notin ModifierNames(w.objects[obj_name])
            THEN RollbackModifiers(w, mods, k + 1)
            ELSE RollbackModifiers(
                     Removed(ModifierRemove(w, obj_name, modifier_name), "modifier", k),
                     mods, k + 1)

\* _rollback: [w, raised]
_rollback(w, ctx) ==
    LET objs == RollbackObjects(w, ctx.created_objects, Len(ctx.created_objects))
    IN IF objs.raised THEN objs
       ELSE [w |-> RollbackModifiers(objs.w, ctx.added_modifiers, 1), raised |-> FALSE]

----------------------------------------------------------------------------
(* rules_planner.py.  A prompt is the sequence of its characters; a character
   outside ASCII is written by its code point, "u5B54" for U+5B54. *)

Step(op, params) == [op |-> op, params |-> params, notes |-> NoValue]

PlanStep(op, params, notes) == [op |-> op, params |-> params, notes |-> notes]

LowerCase ==
    [A |-> "a", B |-> "b", C |-> "c", D |-> "d", E |-> "e", F |-> "f", G |-> "g",
     H |-> "h", I |-> "i", J |-> "j", K |-> "k", L |-> "l", M |-> "m", N |-> "n",
     O |-> "o", P |-> "p", Q |-> "q", R |-> "r", S |-> "s", T |-> "t", U |-> "u",
     V |-> "v", W |-> "w", X |-> "x", Y |-> "y", Z |-> "z"]

\* str.lower()
StrLower(s) == [k \in 1..Len(s) |-> IF s[k] \in DOMAIN LowerCase THEN LowerCase[s[k]] ELSE s[k]]

\* s[i:].startswith(needle)
StartsWithAt(s, i, needle) ==
    /\ i + Len(needle) - 1 <= Len(s)
    /\ \A k \in 1..Len(needle) : s[i + k - 1] = needle[k]

\* needle in s
In(needle, s) == \E i \in 1..Len(s) : StartsWithAt(s, i, needle)

\* any(keyword in s for keyword in keywords)
AnyIn(keywords, s) == \E kw \in keywords : In(kw, s)

DigitValue ==
    [c \in {"0", "1", "2", "3", "4", "5", "6", "7", "8", "9"} |->
        CASE c = "0" -> 0 [] c = "1" -> 1 [] c = "2" -> 2 [] c = "3" -> 3 [] c = "4" -> 4
          [] c = "5" -> 5 [] c = "6" -> 6 [] c = "7" -> 7 [] c = "8" -> 8 [] c = "9" -> 9]

IsDigit(s, i) == i <= Len(s) /\ s[i] \in DOMAIN DigitValue

\* first index >= i that does not hold a digit: the end of \d+
RECURSIVE DigitsEnd(_, _)
DigitsEnd(s, i) == IF IsDigit(s, i) THEN DigitsEnd(s, i + 1) ELSE i

\* first index >= i that does not hold white space: the end of \s*
RECURSIVE SpaceEnd(_, _)
SpaceEnd(s, i) == IF i <= Len(s) /\ s[i] = " " THEN SpaceEnd(s, i + 1) ELSE i

\* int of the digits s[i..j-1]
RECURSIVE DigitsInt(_, _, _)
DigitsInt(s, i, j) == IF j <= i THEN 0 ELSE DigitsInt(s, i, j - 1) * 10 + DigitValue[s[j - 1]]

RECURSIVE Pow10(_)
Pow10(n) == IF n = 0 THEN 1 ELSE 10 * Pow10(n - 1)

\* the unit alternatives of the pattern, in the order the pattern tries them
UnitPattern ==
    << <<"m", "m">>, <<"c", "m">>, <<"m">>, <<"u7C73">>,
       <<"u5398", "u7C73">>, <<"u6BEB", "u7C73">> >>

\* _UNIT_ALIAS
_UNIT_ALIAS(unit_raw) ==
    CASE unit_raw = <<"u7C73">> -> "M"
      [] unit_raw = <<"m">> -> "M"
      [] unit_raw = <<"u5398", "u7C73">> -> "CM"
      [] unit_raw = <<"c", "m">> -> "CM"
      [] unit_raw = <<"u6BEB", "u7C73">> -> "MM"
      [] unit_raw = <<"m", "m">> -> "MM"

\* the match of (\d+(?:\.\d+)?)\s*(mm|cm|m|...) that starts at i, if any
MatchAt(s, i) ==
    LET j == DigitsEnd(s, i)
        k == IF j <= Len(s) /\ s[j] = "." /\ IsDigit(s, j + 1) THEN DigitsEnd(s, j + 1) ELSE j
        m == SpaceEnd(s, k)
        alts == {a \in 1..Len(UnitPattern) : StartsWithAt(s, m, UnitPattern[a])}
        a == CHOOSE a \in alts : \A b \in alts : a <= b
        frac == IF k > j THEN (DigitsInt(s, j + 1, k) * FP) \div Pow10(k - j - 1) ELSE 0
    IN IF IsDigit(s, i) /\ alts # {}
       THEN [ok |-> TRUE, value |-> DigitsInt(s, i, j) * FP + frac,
             unit |-> _UNIT_ALIAS(UnitPattern[a]), end |-> m + Len(UnitPattern[a])]
       ELSE [ok |-> FALSE, value |-> 0, unit |-> "", end |-> i]

\* _extract_dimensions on the lower-cased prompt s, scanning from i
RECURSIVE Dimensions(_, _)
Dimensions(s, i) ==
    IF i > Len(s) THEN <<>>
    ELSE LET mt == MatchAt(s, i)
         IN IF mt.ok THEN <<[value |-> mt.value, unit |-> mt.unit]>> \o Dimensions(s, mt.end)
            ELSE Dimensions(s, i + 1)

_extract_dimensions(prompt) == Dimensions(StrLower(prompt), 1)

\* _match_material
_match_material(prompt) ==
    IF AnyIn({<<"u91D1", "u5C5E">>, <<"m", "e", "t", "a", "l">>}, prompt) THEN "metal_brushed"
    ELSE IF AnyIn({<<"u5851", "u6599">>, <<"p", "l", "a", "s", "t", "i", "c">>}, prompt) THEN "plastic"
    ELSE IF AnyIn({<<"u6728">>, <<"w", "o", "o", "d">>}, prompt) THEN "wood"
    ELSE NoValue

CubeKeywords == {<<"c", "u", "b", "e">>, <<"u7ACB", "u65B9">>, <<"u6B63", "u65B9", "u4F53">>}

SphereKeywords == {<<"s", "p", "h", "e", "r", "e">>, <<"u7403">>}

CylinderKeywords == {<<"c", "y", "l", "i", "n", "d", "e", "r">>, <<"u5706", "u67F1">>}

BooleanKeywords ==
    {<<"u6316">>, <<"u5B54">>, <<"b", "o", "o", "l", "e", "a", "n">>, <<"u5E03", "u5C14">>}

WantsCube(prompt) == AnyIn(CubeKeywords, StrLower(prompt))

WantsSphere(prompt) == AnyIn(SphereKeywords, StrLower(prompt))

WantsCylinder(prompt) == AnyIn(CylinderKeywords, StrLower(prompt))

WantsArray(prompt) ==
    \/ In(<<"u9635", "u5217">>, prompt)
    \/ In(<<"r", "a", "d", "i", "a", "l">>, StrLower(prompt))
    \/ In(<<"a", "r", "r", "a", "y">>, StrLower(prompt))

WantsBevel(prompt) ==
    In(<<"u5012", "u89D2">>, prompt) \/ In(<<"b", "e", "v", "e", "l">>, StrLower(prompt))

WantsBoolean(prompt) == AnyIn(BooleanKeywords, prompt)

HasOp(steps, op) == \E k \in 1..Len(steps) : steps[k].op = op

\* size_value and size_unit: the first dimension of the prompt, else 1.0 in
\* the default unit
SizeHint(prompt, units) ==
    LET default_unit == IF units = "" \/ units = NoValue THEN "M" ELSE units
        dims == _extract_dimensions(prompt)
    IN IF Len(dims) > 0 THEN [value |-> dims[1].value, unit |-> dims[1].unit]
       ELSE [value |-> FP, unit |-> default_unit]

\* last_object_name with the sphere test placed after the cylinder test
LastObjectName_SphereLast(prompt) ==
    IF WantsSphere(prompt) THEN "AI_Sphere"
    ELSE IF WantsCylinder(prompt) THEN "AI_Cylinder"
    ELSE IF WantsCube(prompt) THEN "AI_Cube"
    ELSE NoValue

\* last_object_name after the three primitive tests (cube, sphere, cylinder)
LastObjectName(prompt) ==
    IF WantsCylinder(prompt) THEN "AI_Cylinder"
    ELSE IF WantsSphere(prompt) THEN "AI_Sphere"
    ELSE IF WantsCube(prompt) THEN "AI_Cube"
    ELSE NoValue

CubeStep(size, notes) ==
    PlanStep("ADD_CUBE", [size |-> size.value, units |-> size.unit, name |-> "AI_Cube"], notes)

\* the primitive tests falling back to a cube when no keyword is found
PrimitiveSteps_DefaultCube(prompt, size) ==
    IF WantsCube(prompt) \/ ~(WantsSphere(prompt) \/ WantsCylinder(prompt))
    THEN <<CubeStep(size, "base cube")>>
    ELSE <<>>

\* the three primitive tests
PrimitiveSteps(prompt, size) ==
    (IF WantsCube(prompt) THEN <<CubeStep(size, "base cube")>> ELSE <<>>)
    \o (IF WantsSphere(prompt)
        THEN <<PlanStep("ADD_SPHERE",
                 [radius |-> size.value \div 2, units |-> size.unit, name |-> "AI_Sphere"],
                 "sphere")>>
        ELSE <<>>)
    \o (IF WantsCylinder(prompt)
        THEN <<PlanStep("ADD_CYLINDER",
                 [radius |-> size.value \div 2, depth |-> size.value,
                  units |-> size.unit, name |-> "AI_Cylinder"],
                 "cylinder")>>
        ELSE <<>>)

\* target = last_object_name or "AI_Cube"
ImplicitTarget(prompt) ==
    IF LastObjectName(prompt) = NoValue THEN "AI_Cube" ELSE LastObjectName(prompt)

\* the array and bevel tests
ModifierSteps(prompt, size) ==
    (IF WantsArray(prompt)
     THEN <<PlanStep("ARRAY_RADIAL",
              [source |-> ImplicitTarget(prompt), count |-> 8, radius |-> size.value,
               units |-> size.unit],
              "radial array")>>
     ELSE <<>>)
    \o (IF WantsBevel(prompt)
        THEN <<PlanStep("BEVEL",
                 [target |-> ImplicitTarget(prompt), width |-> (size.value * 5) \div 100,
                  units |-> size.unit, segments |-> 3],
                 "bevel")>>
        ELSE <<>>)

\* the cutter step giving its cylinder a name of its own
CutterStep_OwnName(size) ==
    PlanStep("ADD_CYLINDER",
        [radius |-> size.value \div 4, depth |-> size.value, units |-> size.unit,
         name |-> "AI_Cutter"],
        "boolean cutter")

CutterStep(size) ==
    PlanStep("ADD_CYLINDER",
        [radius |-> size.value \div 4, depth |-> size.value, units |-> size.unit,
         name |-> "AI_Cylinder"],
        "boolean cutter")

BooleanStep ==
    PlanStep("BOOLEAN_DIFFERENCE", [target |-> "AI_Cube", cutter |-> "AI_Cylinder"],
             "boolean difference")

\* the boolean test without the check that a cylinder step exists
BooleanSteps_NoCutter(steps, prompt, size) ==
    IF ~WantsBoolean(prompt) THEN steps
    ELSE LET withBase == IF HasOp(steps, "ADD_CUBE") THEN steps
                         ELSE <<CubeStep(size, "boolean base")>> \o steps
         IN Append(withBase, BooleanStep)

\* the boolean test appending the base cube instead of inserting it first
BooleanSteps_BaseAppended(steps, prompt, size) ==
    IF ~WantsBoolean(prompt) THEN steps
    ELSE LET withBase == IF HasOp(steps, "ADD_CUBE") THEN steps
                         ELSE Append(steps, CubeStep(size, "boolean base"))
             withCutter == IF HasOp(withBase, "ADD_CYLINDER") THEN withBase
                           ELSE Append(withBase, CutterStep(size))
         IN Append(withCutter, BooleanStep)

\* the boolean test: a cube step inserted at the front and a cylinder step
\* appended when the steps so far have none, then the difference step
BooleanSteps(steps, prompt, size) ==
    IF ~WantsBoolean(prompt) THEN steps
    ELSE LET withBase == IF HasOp(steps, "ADD_CUBE") THEN steps
                         ELSE <<CubeStep(size, "boolean base")>> \o steps
             withCutter == IF HasOp(withBase, "ADD_CYLINDER") THEN withBase
                           ELSE Append(withBase, CutterStep(size))
         IN Append(withCutter, BooleanStep)

\* the material test
MaterialSteps(steps, prompt) ==
    IF _match_material(prompt) # NoValue
    THEN Append(steps,
           PlanStep("SET_MATERIAL",
             [target |-> ImplicitTarget(prompt), preset |-> _match_material(prompt)],
             "material preset"))
    ELSE steps

\* the steps list generate_plan builds
PlanSteps(prompt, units) ==
    LET size == SizeHint(prompt, units)
    IN MaterialSteps(
         BooleanSteps(PrimitiveSteps(prompt, size) \o ModifierSteps(prompt, size),
                      prompt, size),
         prompt)

\* generate_plan writing the plan id into every step's notes
generate_plan_IdInNotes(prompt, units, id) ==
    LET steps == PlanSteps(prompt, units)
    IN [id |-> id, prompt |-> prompt, units |-> units,
        steps |-> [k \in 1..Len(steps) |-> [steps[k] EXCEPT !.notes = id]]]

\* RulesPlanner.generate_plan; id is the uuid4 drawn for the plan
generate_plan(prompt, units, id) ==
    [id |-> id, prompt |-> prompt, units |-> units, steps |-> PlanSteps(prompt, units)]

----------------------------------------------------------------------------
(* planner_client.py.  A decoded JSON value carries its type in the field
   kind, so that values of different JSON types are told apart by their
   fields; a number is kept by its digits. *)

JStr(s) == [kind |-> "str", str |-> s]

JInt(digits) == [kind |-> "int", digits |-> digits]

JNull == [kind |-> "null"]

JList(items) == [kind |-> "list", items |-> items]

JDict(d) == [kind |-> "dict", dict |-> d]

\* Python truthiness of a decoded value
Truthy(v) ==
    CASE v.kind = "str" -> v.str # ""
      [] v.kind = "int" -> v.digits # "0"
      [] v.kind = "null" -> FALSE
      [] v.kind = "list" -> v.items # <<>>
      [] v.kind = "dict" -> DOMAIN v.dict # {}

\* str(v) for the values that reach it
Str(v) ==
    CASE v.kind = "str" -> v.str
      [] v.kind = "int" -> v.digits
      [] v.kind = "null" -> "None"

\* outcome of a call: a value or the exception that left it
Value(v) == [ok |-> TRUE, value |-> v]

Exception(name) == [ok |-> FALSE, exc |-> name]

\* PlannerClient._parse_step accepting any params value
_parse_step_AnyParams(step_data) ==
    IF step_data.kind # "dict" THEN Exception("AttributeError")
    ELSE LET op == Get(step_data.dict, "op", JNull)
             params == Get(step_data.dict, "params", JDict(EmptyFn))
             notes == Get(step_data.dict, "notes", JNull)
         IN IF ~Truthy(op) THEN Exception("AIModelerError")
            ELSE Value(PlanStep(Str(op),
                                IF params.kind = "dict" THEN params.dict ELSE EmptyFn,
                                IF notes.kind = "null" THEN NoValue ELSE notes.str))

\* PlannerClient._parse_step
_parse_step(step_data) ==
    IF step_data.kind # "dict" THEN Exception("AttributeError")
    ELSE LET op == Get(step_data.dict, "op", JNull)
             params == Get(step_data.dict, "params", JDict(EmptyFn))
             notes == Get(step_data.dict, "notes", JNull)
         IN IF ~Truthy(op) THEN Exception("AIModelerError")
            ELSE IF params.kind # "dict" THEN Exception("AIModelerError")
            ELSE Value(PlanStep(Str(op), params.dict,
                                IF notes.kind = "null" THEN NoValue ELSE notes.str))

\* [self._parse_step(step) for step in steps]: the steps parsed in order,
\* the first exception ending the comprehension
RECURSIVE ParseSteps(_)
ParseSteps(items) ==
    IF items = <<>> THEN Value(<<>>)
    ELSE LET first == _parse_step(Head(items))
         IN IF ~first.ok THEN first
            ELSE LET rest == ParseSteps(Tail(items))
                 IN IF ~rest.ok THEN rest
                    ELSE Value(<<first.value>> \o rest.value)

required_keys == {"id", "prompt", "units", "steps"}

\* the part of PlannerClient.generate_plan that follows http.post
ParseResponse(resp) ==
    IF resp.kind # "dict" THEN Exception("AttributeError")
    ELSE LET plan_data == Get(resp.dict, "plan", resp)
         IN CASE plan_data.kind \in {"null", "int"} -> Exception("TypeError")
              [] plan_data.kind \in {"str", "list"} -> Exception("AIModelerError")
              [] plan_data.kind = "dict" ->
                    IF ~(required_keys \subseteq DOMAIN plan_data.dict)
                    THEN Exception("AIModelerError")
                    ELSE LET raw == plan_data.dict["steps"]
                             steps ==
                                 CASE raw.kind = "list" -> ParseSteps(raw.items)
                                   [] raw.kind \in {"null", "int"} -> Exception("TypeError")
                                   [] raw.kind = "str" ->
                                         IF raw.str = "" THEN Value(<<>>)
                                         ELSE Exception("AttributeError")
                                   [] raw.kind = "dict" ->
                                         IF DOMAIN raw.dict = {} THEN Value(<<>>)
                                         ELSE Exception("AttributeError")
                         IN IF ~steps.ok THEN steps
                            ELSE Value([id |-> Str(plan_data.dict["id"]),
                                        prompt |-> Str(plan_data.dict["prompt"]),
                                        units |-> Str(plan_data.dict["units"]),
                                        steps |-> steps.value])

----------------------------------------------------------------------------
(* Inputs: the plans handed to the executor and the scenes it starts from *)

StepSet ==
    { Step("ADD_CUBE", [size |-> 50 * FP, units |-> "CM", name |-> "A"]),
      Step("ADD_CUBE", [size |-> 50 * FP]),
      Step("ADD_CUBE", [name |-> NonString]),
      Step("ADD_SPHERE", [radius |-> 2 * FP, units |-> "mm", name |-> "A"]),
      Step("ADD_CYLINDER", [radius |-> FP, depth |-> 2 * FP, units |-> "in", name |-> "C"]),
      Step("BOOLEAN_DIFFERENCE", [target |-> "A", cutter |-> "C"]),
      Step("ARRAY_RADIAL", [source |-> "A", count |-> 8, radius |-> FP]),
      Step("ARRAY_RADIAL", [source |-> "E"]),
      Step("BEVEL", [target |-> "A", width |-> FP]),
      Step("BEVEL", [width |-> FP]),
      Step("SET_MATERIAL", [target |-> "A", preset |-> "metal_brushed"]),
      Step("SET_MATERIAL", [target |-> "E", preset |-> "plastic"]),
      Step("EXTRUDE", EmptyFn) }

RECURSIVE SeqsUpTo(_, _)
SeqsUpTo(S, n) ==
    IF n = 0 THEN {<<>>}
    ELSE LET shorter == SeqsUpTo(S, n - 1)
         IN shorter \cup {Append(q, x) : q \in shorter, x \in S}

Plans ==
    {[id |-> "plan-1", prompt |-> "", units |-> u, steps |-> q] :
        u \in {"M", "CM"}, q \in SeqsUpTo(StepSet, MaxSteps)}

\* scenes the executor can be started on: empty; one holding a mesh "A"
\* with a bevel modifier and a material, and an empty "E"
InitScenes ==
    { [objects |-> EmptyFn, materials |-> EmptyFn],
      [objects |->
          [A |-> [type |-> "MESH", coll |-> "Master", geom |-> <<FP>>,
                  modifiers |-> <<[name |-> "AI_Bevel", type |-> "BEVEL", width |-> FP,
                                   count |-> 2, object |-> "", by |-> 0]>>,
                  slots |-> <<"Wood">>, by |-> 0],
           E |-> [type |-> "EMPTY", coll |-> "Master", geom |-> <<>>,
                  modifiers |-> <<>>, slots |-> <<>>, by |-> 0]],
       materials |-> [Wood |-> DefaultMaterial, AI_metal_brushed |-> DefaultMaterial]] }

----------------------------------------------------------------------------
(* State machine *)

\* no planner call made yet, on the empty prompt
PlannerIdle ==
    /\ focalPrompt = <<>>
    /\ focalUnits = "M"
    /\ genPlan = None
    /\ uuids = 0
    /\ focalCalls = 0
    /\ seenSteps = {}

\* no generate cycle under way
OperatorIdle ==
    /\ remote = FALSE
    /\ cyc = "off"
    /\ attempts = 0
    /\ lastOutcome = "none"
    /\ postResult = "pending"
    /\ response = JNull
    /\ clientResult = "pending"
    /\ cyclePlan = None
    /\ usedRemote = FALSE
    /\ executed = 0
    /\ requestsAtCall = 0

\* the executor before its construction, on scene sc
ExecutorNew(sc) ==
    /\ objects = sc.objects
    /\ materials = sc.materials
    /\ PRESETS = EmptyFn
    /\ fileReads = 0
    /\ plan = None
    /\ pc = "new"
    /\ index = 0
    /\ step_ctx = [created_objects |-> <<>>, added_modifiers |-> <<>>]
    /\ diff = <<>>
    /\ status = ""
    /\ error_msg = None
    /\ result = None
    /\ raised = ""
    /\ invoked = <<>>
    /\ failedAt = 0
    /\ rollbacks = 0
    /\ removed = <<>>
    /\ failure = None
    /\ objects0 = objects
    /\ materials0 = materials
    /\ plan0 = None

Init ==
    /\ PlannerIdle
    /\ OperatorIdle
    /\ bpyAvailable \in BOOLEAN
    /\ loads = <<>>
    /\ activeCollection \in {"Master", "Child"}
    /\ presetFile \in {"present", "missing"}
    /\ \E sc \in InitScenes : ExecutorNew(sc)

\* ModelingExecutor.__init__ without the bpy check
Construct_NoCheck ==
    /\ pc = "new"
    /\ pc' = "idle"
    /\ UNCHANGED <<objects, materials, activeCollection, presetFile, aux, PRESETS, fileReads,
                   plan, index, step_ctx, diff, status, error_msg, result, raised,
                   invoked, failedAt, rollbacks, removed, failure, objects0, materials0, plan0>>

\* ModelingExecutor.__init__: raises AIModelerError when bpy is missing,
\* otherwise keeps the context and its scene
Construct ==
    /\ pc = "new"
    /\ pc' = IF bpyAvailable THEN "idle" ELSE "setup_error"
    /\ raised' = IF bpyAvailable THEN "" ELSE "AIModelerError"
    /\ UNCHANGED <<objects, materials, activeCollection, presetFile, aux, PRESETS, fileReads,
                   plan, index, step_ctx, diff, status, error_msg, result,
                   invoked, failedAt, rollbacks, removed, failure, objects0, materials0, plan0>>

\* execute_plan entered with plan p: the locals are set up
ExecutePlan(p) ==
    /\ pc = "idle"
    /\ plan' = p
    /\ plan0' = p
    /\ objects0' = objects
    /\ materials0' = materials
    /\ step_ctx' = [created_objects |-> <<>>, added_modifiers |-> <<>>]
    /\ diff' = <<>>
    /\ status' = "success"
    /\ error_msg' = None
    /\ index' = 1
    /\ pc' = "loop"
    /\ UNCHANGED <<objects, materials, activeCollection, presetFile, aux, PRESETS, fileReads,
                   result, raised, invoked, failedAt, rollbacks, removed, failure>>

AtStep == pc = "loop" /\ index <= Len(plan.steps)

CurrentStep == plan.steps[index]

\* the message built in the except branch: 1-based index, tag, exception
ErrorMessage_ZeroBased(i, step, exc) == [index |-> i - 1, op |-> step.op, exc |-> exc]

ErrorMessage(i, step, exc) == [index |-> i, op |-> step.op, exc |-> exc]

\* the status of a failure at step i
FailureStatus_AlwaysPartial(i) == IF i > 0 THEN "partial" ELSE "fail"

FailureStatus(i) == IF i > 1 THEN "partial" ELSE "fail"

\* what the except branch finds: the scene and the context as they were when
\* the step began, and as the failing handler (or _get_handler) left them
Failure(w, ctx) ==
    [before |-> [objects |-> objects, materials |-> materials, ctx |-> step_ctx],
     after  |-> [objects |-> w.objects, materials |-> w.materials, ctx |-> ctx]]

\* the except branch without its break: the loop goes on to the next step
StepFails_NoBreak(w, ctx, exc) ==
    LET rb == _rollback(w, ctx)
    IN /\ error_msg' = ErrorMessage(index, CurrentStep, exc)
       /\ status' = FailureStatus(index)
       /\ objects' = rb.w.objects
       /\ materials' = rb.w.materials
       /\ PRESETS' = rb.w.PRESETS
       /\ fileReads' = rb.w.fileReads
       /\ step_ctx' = ctx
       /\ failedAt' = IF failedAt = 0 THEN index ELSE failedAt
       /\ rollbacks' = rollbacks + 1
       /\ removed' = rb.w.removed
       /\ failure' = Failure(w, ctx)
       /\ pc' = IF rb.raised THEN "raised" ELSE "loop"
       /\ raised' = IF rb.raised THEN "RuntimeError" ELSE ""
       /\ index' = index + 1
       /\ UNCHANGED diff

\* the except branch without its call of _rollback
StepFails_NoRollback(w, ctx, exc) ==
    /\ error_msg' = ErrorMessage(index, CurrentStep, exc)
    /\ status' = FailureStatus(index)
    /\ objects' = w.objects
    /\ materials' = w.materials
    /\ PRESETS' = w.PRESETS
    /\ fileReads' = w.fileReads
    /\ step_ctx' = ctx
    /\ failedAt' = index
    /\ failure' = Failure(w, ctx)
    /\ pc' = "exit"
    /\ UNCHANGED <<diff, index, rollbacks, removed, raised>>

\* the except branch of the loop body: message, status, rollback, break;
\* an exception raised by _rollback leaves execute_plan
StepFails(w, ctx, exc) ==
    LET rb == _rollback(w, ctx)
    IN /\ error_msg' = ErrorMessage(index, CurrentStep, exc)
       /\ status' = FailureStatus(index)
       /\ objects' = rb.w.objects
       /\ materials' = rb.w.materials
       /\ PRESETS' = rb.w.PRESETS
       /\ fileReads' = rb.w.fileReads
       /\ step_ctx' = ctx
       /\ failedAt' = index
       /\ rollbacks' = rollbacks + 1
       /\ removed' = rb.w.removed
       /\ failure' = Failure(w, ctx)
       /\ pc' = IF rb.raised THEN "raised" ELSE "exit"
       /\ raised' = IF rb.raised THEN "RuntimeError" ELSE ""
       /\ UNCHANGED <<diff, index>>

\* one iteration of the loop whose handler outcome is r
Iteration(r) ==
    /\ invoked' = Append(invoked, index)
    /\ plan' = [plan EXCEPT !.steps[index].params = r.params]
    /\ IF r.ok
       THEN /\ objects' = r.w.objects
            /\ materials' = r.w.materials
            /\ PRESETS' = r.w.PRESETS
            /\ fileReads' = r.w.fileReads
            /\ step_ctx' = r.ctx
            /\ diff' = Append(diff, [step |-> CurrentStep.op, params |-> r.params])
            /\ index' = index + 1
            /\ UNCHANGED <<status, error_msg, pc, raised, failedAt, rollbacks, removed, failure>>
       ELSE StepFails(r.w, r.ctx, r.exc)
    /\ UNCHANGED <<activeCollection, presetFile, aux, result, objects0, materials0, plan0>>

StepAddCube ==
    /\ AtStep /\ CurrentStep.op = "ADD_CUBE"
    /\ Iteration(_op_add_cube(World, CurrentStep.params, step_ctx, index))

StepAddSphere ==
    /\ AtStep /\ CurrentStep.op = "ADD_SPHERE"
    /\ Iteration(_op_add_sphere(World, CurrentStep.params, step_ctx, index))

StepAddCylinder ==
    /\ AtStep /\ CurrentStep.op = "ADD_CYLINDER"
    /\ Iteration(_op_add_cylinder(World, CurrentStep.params, step_ctx, index))

StepBooleanDifference ==
    /\ AtStep /\ CurrentStep.op = "BOOLEAN_DIFFERENCE"
    /\ Iteration(_op_boolean_difference(World, CurrentStep.params, step_ctx, index))

StepArrayRadial ==
    /\ AtStep /\ CurrentStep.op = "ARRAY_RADIAL"
    /\ Iteration(_op_array_radial(World, CurrentStep.params, step_ctx, index))

StepBevel ==
    /\ AtStep /\ CurrentStep.op = "BEVEL"
    /\ Iteration(_op_bevel(World, CurrentStep.params, step_ctx, index))

StepSetMaterial ==
    /\ AtStep /\ CurrentStep.op = "SET_MATERIAL"
    /\ Iteration(_op_set_material(World, CurrentStep.params, step_ctx, index))

\* _get_handler raises for a tag it does not know: no handler is invoked
StepUnknownOp ==
    /\ AtStep /\ CurrentStep.op \notin Handlers
    /\ StepFails(World, step_ctx, "unsupported operation")
    /\ UNCHANGED <<plan, invoked, activeCollection, presetFile, aux, result,
                   objects0, materials0, plan0>>

\* the loop is over (exhausted or left by break): the result is built
Return ==
    /\ \/ pc = "exit"
       \/ pc = "loop" /\ index > Len(plan.steps)
    /\ result' = [status |-> status, objects |-> step_ctx.created_objects,
                  diff |-> diff, error |-> error_msg]
    /\ pc' = "done"
    /\ UNCHANGED <<objects, materials, activeCollection, presetFile, aux, PRESETS, fileReads,
                   plan, index, step_ctx, diff, status, error_msg, raised, invoked,
                   failedAt, rollbacks, removed, failure, objects0, materials0, plan0>>

Next ==
    \/ Construct
    \/ pc = "idle" /\ \E p \in Plans : ExecutePlan(p)
    \/ StepAddCube
    \/ StepAddSphere
    \/ StepAddCylinder
    \/ StepBooleanDifference
    \/ StepArrayRadial
    \/ StepBevel
    \/ StepSetMaterial
    \/ StepUnknownOp
    \/ Return

Spec == Init /\ [][Next]_vars

----------------------------------------------------------------------------
(* The rule-based planner on its own: repeated generate_plan calls *)

\* words the prompts are made of
Vocabulary ==
    { <<"c", "u", "b", "e">>,
      <<"S", "p", "h", "e", "r", "e">>,
      <<"u5706", "u67F1">>,
      <<"a", "r", "r", "a", "y">>,
      <<"B", "E", "V", "E", "L">>,
      <<"u5B54">>,
      <<"m", "e", "t", "a", "l">> }

RECURSIVE Sentences(_)
Sentences(n) ==
    IF n = 0 THEN {<<>>}
    ELSE LET shorter == Sentences(n - 1)
         IN shorter \cup {IF q = <<>> THEN wd ELSE q \o <<" ">> \o wd :
                             q \in shorter, wd \in Vocabulary}

Prompts == Sentences(MaxWords)

UnitArguments == {"CM", ""}

\* the prompt and units of the calls made in between
OtherPrompt == <<"c", "u", "b", "e", " ", "u5B54">>

OtherUnits == "MM"

UUIDs == <<"uuid-1", "uuid-2", "uuid-3", "uuid-4", "uuid-5", "uuid-6">>

InitPlanner ==
    /\ focalPrompt \in Prompts
    /\ focalUnits \in UnitArguments
    /\ genPlan = None
    /\ uuids = 0
    /\ focalCalls = 0
    /\ seenSteps = {}
    /\ OperatorIdle
    /\ bpyAvailable = TRUE
    /\ loads = <<>>
    /\ activeCollection = "Master"
    /\ presetFile = "present"
    /\ ExecutorNew([objects |-> EmptyFn, materials |-> EmptyFn])

\* generate_plan on the prompt under study
RulesGenerate ==
    /\ uuids < MaxCalls
    /\ genPlan' = generate_plan(focalPrompt, focalUnits, UUIDs[uuids + 1])
    /\ uuids' = uuids + 1
    /\ focalCalls' = focalCalls + 1
    /\ seenSteps' = seenSteps \cup {genPlan'.steps}
    /\ UNCHANGED <<focalPrompt, focalUnits, bpyAvailable, loads, executorVars, cycleVars>>

\* generate_plan on some other prompt
RulesGenerateOther ==
    /\ uuids < MaxCalls
    /\ genPlan' = generate_plan(OtherPrompt, OtherUnits, UUIDs[uuids + 1])
    /\ uuids' = uuids + 1
    /\ UNCHANGED <<focalPrompt, focalUnits, focalCalls, seenSteps, bpyAvailable, loads,
                   executorVars, cycleVars>>

NextPlanner ==
    \/ RulesGenerate
    \/ RulesGenerateOther

SpecPlanner == InitPlanner /\ [][NextPlanner]_vars

----------------------------------------------------------------------------
(* One generate cycle: AIModelerGenerateOperator.execute with the planner
   client and the HTTP client it drives *)

MaxRemoteSteps == 2

max_retries == 3

\* str.strip() for the white space that occurs
RECURSIVE LStrip(_)
LStrip(s) == IF s # <<>> /\ Head(s) = " " THEN LStrip(Tail(s)) ELSE s

RECURSIVE RStrip(_)
RStrip(s) == IF s # <<>> /\ s[Len(s)] = " " THEN RStrip(SubSeq(s, 1, Len(s) - 1)) ELSE s

Strip(s) == RStrip(LStrip(s))

\* scene.ai_modeler_prompt values: blank, no keyword, and two that between
\* them ask for every kind of step
CyclePrompts ==
    { <<" ", " ">>,
      <<" ", "2", ".", "5", " ">>,
      <<"c", "u", "b", "e", " ", "5", "0", "c", "m", " ", "u5B54", " ", "m", "e", "t", "a", "l">>,
      <<"S", "p", "h", "e", "r", "e", " ", "a", "r", "r", "a", "y", " ", "B", "E", "V", "E", "L">> }

\* the step entries a remote planner may send
StepData ==
    { JDict([op |-> JStr("ADD_CUBE"),
             params |-> JDict([size |-> 50 * FP, units |-> "CM", name |-> "A"]),
             notes |-> JStr("remote cube")]),
      JDict([op |-> JStr("ADD_SPHERE")]),
      JDict([op |-> JInt("7"), params |-> JDict(EmptyFn)]),
      JDict([op |-> JStr(""), params |-> JDict(EmptyFn)]),
      JDict([params |-> JDict(EmptyFn)]),
      JDict([op |-> JStr("BEVEL"), params |-> JList(<<>>)]),
      JDict([op |-> JStr("BEVEL"), params |-> JNull]),
      JStr("ADD_CUBE") }

\* the values a remote planner may send under "steps"
StepsValues == {JList(q) : q \in SeqsUpTo(StepData, MaxRemoteSteps)} \cup {JNull}

PlanObject(st) ==
    [id |-> JStr("remote-1"), prompt |-> JStr("remote"), units |-> JStr("M"), steps |-> st]

\* plan objects lacking one of the required keys
Incomplete == {Remove(PlanObject(JList(<<>>)), key) : key \in required_keys}

\* decoded bodies: a plan object at the top level, a plan object with at
\* most one step under "plan", an empty object, and a body that is no object
Responses ==
    {JDict(o) : o \in {PlanObject(st) : st \in StepsValues} \cup Incomplete}
    \cup {JDict([plan |-> JDict(o)]) :
             o \in {PlanObject(JList(q)) : q \in SeqsUpTo(StepData, 1)} \cup Incomplete}
    \cup {JDict(EmptyFn), JList(<<>>)}

\* how one request attempt can end: 2xx with a JSON body, 2xx with a body
\* that is no JSON, URLError, TimeoutError, status >= 400
Failures == {"url_error", "timeout", "http_error"}

Outcomes == {"ok", "bad_json"} \cup Failures

\* units = scene.ai_modeler_units or "M"
CycleUnits == IF focalUnits = "" THEN "M" ELSE focalUnits

InitCycle ==
    /\ focalPrompt \in CyclePrompts
    /\ focalUnits \in {"", "CM"}
    /\ genPlan = None
    /\ uuids = 0
    /\ focalCalls = 0
    /\ seenSteps = {}
    /\ remote \in BOOLEAN
    /\ cyc = "invoked"
    /\ attempts = 0
    /\ lastOutcome = "none"
    /\ postResult = "pending"
    /\ response = JNull
    /\ clientResult = "pending"
    /\ cyclePlan = None
    /\ usedRemote = FALSE
    /\ executed = 0
    /\ requestsAtCall = 0
    /\ bpyAvailable = TRUE
    /\ loads = <<>>
    /\ activeCollection \in {"Master", "Child"}
    /\ presetFile = "present"
    /\ \E sc \in InitScenes : ExecutorNew(sc)

\* "if not prompt" without the test
PromptMissing_Never(prompt) == FALSE

\* if not prompt
PromptMissing(prompt) == prompt = <<>>

\* execute up to the choice of the planner
OperatorExecute ==
    /\ cyc = "invoked"
    /\ cyc' = IF PromptMissing(Strip(focalPrompt)) THEN "cancelled"
              ELSE IF remote THEN "request"
              ELSE "rules"
    /\ UNCHANGED <<remote, attempts, lastOutcome, postResult, response, clientResult,
                   cyclePlan, usedRemote, executed, requestsAtCall>>
    /\ UNCHANGED <<executorVars, bpyAvailable, loads, plannerVars>>

\* a try/except around the client call that handles AIModelerError only
Caught_OnlyAIModelerError(exc) == exc \in {"AIModelerError", "AIHttpError"}

\* "except Exception" around client.generate_plan: every exception the client
\* raises is handled
Caught(exc) == exc \in {"AIModelerError", "AIHttpError", "JSONDecodeError",
                        "TypeError", "AttributeError"}

\* where execute goes when the client raised exc
AfterClientError(exc) == IF Caught(exc) THEN "rules" ELSE "crashed"

\* one pass of the retry loop of HttpClient.post
HttpAttempt(outcome) ==
    /\ cyc = "request"
    /\ attempts < max_retries
    /\ attempts' = attempts + 1
    /\ lastOutcome' = outcome
    /\ \/ /\ outcome = "ok"
          /\ response' \in Responses
          /\ postResult' = "body"
          /\ cyc' = "parse"
          /\ UNCHANGED clientResult
       \/ /\ outcome = "bad_json"
          /\ postResult' = "JSONDecodeError"
          /\ clientResult' = "JSONDecodeError"
          /\ cyc' = AfterClientError("JSONDecodeError")
          /\ UNCHANGED response
       \/ /\ outcome \in Failures
          /\ UNCHANGED <<postResult, clientResult, cyc, response>>
    /\ UNCHANGED <<remote, cyclePlan, usedRemote, executed, requestsAtCall>>
    /\ UNCHANGED <<executorVars, bpyAvailable, loads, plannerVars>>

\* the raise that follows the retry loop
HttpExhausted ==
    /\ cyc = "request"
    /\ attempts = max_retries
    /\ postResult' = "AIHttpError"
    /\ clientResult' = "AIHttpError"
    /\ cyc' = AfterClientError("AIHttpError")
    /\ UNCHANGED <<remote, attempts, lastOutcome, response, cyclePlan, usedRemote,
                   executed, requestsAtCall>>
    /\ UNCHANGED <<executorVars, bpyAvailable, loads, plannerVars>>

\* PlannerClient.generate_plan from the decoded body on, and the operator's
\* try/except around it
ClientParse ==
    /\ cyc = "parse"
    /\ LET r == ParseResponse(response)
       IN IF r.ok
          THEN /\ cyclePlan' = r.value
               /\ clientResult' = "plan"
               /\ usedRemote' = TRUE
               /\ cyc' = "planned"
          ELSE /\ clientResult' = r.exc
               /\ cyc' = AfterClientError(r.exc)
               /\ UNCHANGED <<cyclePlan, usedRemote>>
    /\ UNCHANGED <<remote, attempts, lastOutcome, postResult, response, executed,
                   requestsAtCall>>
    /\ UNCHANGED <<executorVars, bpyAvailable, loads, plannerVars>>

\* if plan is None: plan = RULES_PLANNER.generate_plan(...)
RulesFallback ==
    /\ cyc = "rules"
    /\ genPlan' = generate_plan(Strip(focalPrompt), CycleUnits, UUIDs[uuids + 1])
    /\ uuids' = uuids + 1
    /\ cyclePlan' = genPlan'
    /\ response' = JNull
    /\ cyc' = "planned"
    /\ UNCHANGED <<remote, attempts, lastOutcome, postResult, clientResult, usedRemote,
                   executed, requestsAtCall>>
    /\ UNCHANGED <<executorVars, bpyAvailable, loads, focalPrompt, focalUnits, focalCalls, seenSteps>>

\* executor = ModelingExecutor(context)
OperatorConstruct == cyc = "planned" /\ Construct

\* the operator reaches executor.execute_plan(plan)
OperatorCall ==
    /\ cyc = "planned"
    /\ pc = "idle"
    /\ cyc' = "executing"
    /\ executed' = executed + 1
    /\ requestsAtCall' = attempts
    /\ response' = JNull
    /\ UNCHANGED <<remote, attempts, lastOutcome, postResult, clientResult, cyclePlan,
                   usedRemote>>
    /\ UNCHANGED <<executorVars, bpyAvailable, loads, plannerVars>>

\* execute_plan is entered with the operator's plan
OperatorExecutePlan == cyc = "executing" /\ ExecutePlan(cyclePlan)

\* what follows execute_plan: the report, or the exception leaving execute
OperatorFinish ==
    /\ cyc = "executing"
    /\ pc \in {"done", "raised"}
    /\ cyc' = IF pc = "done" THEN "finished"
              ELSE IF raised = "AIModelerError" THEN "cancelled"
              ELSE "crashed"
    /\ UNCHANGED <<remote, attempts, lastOutcome, postResult, response, clientResult,
                   cyclePlan, usedRemote, executed, requestsAtCall>>
    /\ UNCHANGED <<executorVars, bpyAvailable, loads, plannerVars>>

NextCycle ==
    \/ OperatorExecute
    \/ \E outcome \in Outcomes : HttpAttempt(outcome)
    \/ HttpExhausted
    \/ ClientParse
    \/ RulesFallback
    \/ OperatorConstruct
    \/ OperatorCall
    \/ OperatorExecutePlan
    \/ StepAddCube
    \/ StepAddSphere
    \/ StepAddCylinder
    \/ StepBooleanDifference
    \/ StepArrayRadial
    \/ StepBevel
    \/ StepSetMaterial
    \/ StepUnknownOp
    \/ Return
    \/ OperatorFinish

SpecCycle == InitCycle /\ [][NextCycle]_vars

----------------------------------------------------------------------------
(* The material catalog over a process: calls of ensure_material_presets_loaded
   and get_preset, in any order, from the module's initial state *)

\* the longest sequence of catalog calls considered
MaxLoads == 4

\* the preset names asked for: one with attributes, one without, one unknown
PresetNames == {"metal_brushed", "blank", "wood"}

\* the module as imported: _PRESETS empty, the preset file as it is on disk
\* (present with the catalog, missing, or present with an empty object)
InitMaterials ==
    /\ PlannerIdle
    /\ OperatorIdle
    /\ bpyAvailable = TRUE
    /\ loads = <<>>
    /\ activeCollection = "Master"
    /\ presetFile \in {"present", "missing", "empty"}
    /\ ExecutorNew([objects |-> EmptyFn, materials |-> EmptyFn])

\* what the catalog functions neither read nor write
catalogFrame == <<objects, materials, activeCollection, presetFile, plan, pc, index,
                  step_ctx, diff, status, error_msg, result, raised, invoked, failedAt,
                  rollbacks, removed, failure, objects0, materials0, plan0,
                  bpyAvailable, plannerVars, cycleVars>>

\* a call of ensure_material_presets_loaded (register() makes the first one)
EnsureLoaded ==
    /\ Len(loads) < MaxLoads
    /\ LET w == ensure_material_presets_loaded(World)
       IN /\ PRESETS' = w.PRESETS
          /\ fileReads' = w.fileReads
    /\ loads' = Append(loads, [call |-> "ensure_material_presets_loaded",
                               name |-> NoValue, ok |-> TRUE])
    /\ UNCHANGED catalogFrame

\* a call of get_preset(name)
GetPreset(name) ==
    /\ Len(loads) < MaxLoads
    /\ LET gp == get_preset(World, name)
       IN /\ PRESETS' = gp.w.PRESETS
          /\ fileReads' = gp.w.fileReads
          /\ loads' = Append(loads, [call |-> "get_preset", name |-> name, ok |-> gp.ok])
    /\ UNCHANGED catalogFrame

NextMaterials ==
    \/ EnsureLoaded
    \/ \E name \in PresetNames : GetPreset(name)

SpecMaterials == InitMaterials /\ [][NextMaterials]_vars

----------------------------------------------------------------------------
(* Properties *)

Returns == pc = "done"

Ended == pc \in {"done", "raised"}

\* C1: whenever execute_plan ends with status 'fail' or 'partial', objects
\* (with their modifiers and material slots) and material data blocks are
\* what they were before the call.
C1_SceneRestoredOnFailure ==
    (Returns /\ result.status \in {"fail", "partial"})
        => (objects = objects0 /\ materials = materials0)

\* C2: when step k fails, once execute_plan is over the scene holds no
\* object created by steps 1..k-1 and no modifier added by steps 1..k-1.
C2_RollbackComplete ==
    (Ended /\ failedAt > 0) =>
        \A n \in DOMAIN objects :
            /\ objects[n].by \notin 1..(failedAt - 1)
            /\ \A k \in 1..Len(objects[n].modifiers) :
                   objects[n].modifiers[k].by \notin 1..(failedAt - 1)

\* C3: the status is 'fail' exactly when the first step fails, 'partial'
\* exactly when steps 1..k-1 succeeded and step k > 1 fails, 'success'
\* exactly when no step fails; a returned result carries that status.
C3_StatusClassification ==
    Ended =>
        /\ (status = "fail") <=> (failedAt = 1)
        /\ (status = "partial") <=> (failedAt > 1 /\ Len(diff) = failedAt - 1)
        /\ (status = "success") <=> (failedAt = 0 /\ Len(diff) = Len(plan0.steps))
        /\ Returns => result.status = status

C3_Witness ==
    /\ Returns
    /\ result.status = "partial"
    /\ failedAt = 3

\* C4: execute_plan raises nothing to its caller, whichever way a step fails.
C4_NothingPropagates == pc # "raised"

\* C5: in every returned result, error is present iff status is not
\* 'success', and when present it names the failing step's 1-based index and
\* its operation tag.
C5_ErrorIffNotSuccess ==
    Returns =>
        /\ (result.error # None) <=> (result.status # "success")
        /\ (result.error # None) =>
               /\ failedAt \in 1..Len(plan0.steps)
               /\ result.error.index = failedAt
               /\ result.error.op = plan0.steps[failedAt].op

C5_Witness ==
    /\ Returns
    /\ result.status = "partial"
    /\ result.error # None
    /\ result.error.index = 2

\* C6: every name in a returned result's objects list is the name of an
\* object in the scene at return, and the list is empty when a step failed.
C6_ObjectsRemainInScene ==
    Returns =>
        /\ \A k \in 1..Len(result.objects) : result.objects[k] \in DOMAIN objects
        /\ failedAt > 0 => result.objects = <<>>

\* the steps of a plan that create an object, in plan order
CreatingOps == {"ADD_CUBE", "ADD_SPHERE", "ADD_CYLINDER", "ARRAY_RADIAL"}

RECURSIVE CreatingSteps(_, _)
CreatingSteps(steps, k) ==
    IF k > Len(steps) THEN <<>>
    ELSE IF steps[k].op \in CreatingOps THEN <<k>> \o CreatingSteps(steps, k + 1)
    ELSE CreatingSteps(steps, k + 1)

\* the name a creating step asks for
RequestedName(step) ==
    CASE step.op = "ADD_CUBE" -> Get(step.params, "name", "AI_Cube")
      [] step.op = "ADD_SPHERE" -> Get(step.params, "name", "AI_Sphere")
      [] step.op = "ADD_CYLINDER" -> Get(step.params, "name", "AI_Cylinder")
      [] step.op = "ARRAY_RADIAL" -> Get(step.params, "source", NoValue) \o "_RadialEmpty"

Variants(name) == {name} \cup {name \o Suffixes[k] : k \in 1..Len(Suffixes)}

\* C7 as stated: on success the objects list is, in step order, the name
\* each object-creating step assigns, and each such object is in the scene.
C7_ObjectsAreRequestedNames ==
    (Returns /\ result.status = "success") =>
        LET cs == CreatingSteps(plan0.steps, 1)
        IN /\ Len(result.objects) = Len(cs)
           /\ \A k \in 1..Len(cs) :
                  /\ result.objects[k] = RequestedName(plan0.steps[cs[k]])
                  /\ result.objects[k] \in DOMAIN objects
                  /\ objects[result.objects[k]].by = cs[k]

\* C7 amended: on success the objects list is, in step order, the name each
\* created object actually carries (the requested name, or the host's
\* numbered variant of it when that name was taken), and the object created
\* by that step is in the scene under that name.
C7_ObjectsAreActualNames ==
    (Returns /\ result.status = "success") =>
        LET cs == CreatingSteps(plan0.steps, 1)
        IN /\ Len(result.objects) = Len(cs)
           /\ \A k \in 1..Len(cs) :
                  /\ result.objects[k] \in Variants(RequestedName(plan0.steps[cs[k]]))
                  /\ result.objects[k] \in DOMAIN objects
                  /\ objects[result.objects[k]].by = cs[k]

C7_Witness ==
    /\ Returns
    /\ result.status = "success"
    /\ Len(result.objects) = 2
    /\ result.objects[2] = "A.001"
    /\ objects["A.001"].by = 2

\* C8: handlers are invoked in plan order and none after the failing step;
\* the returned diff is the {op, params} of the steps before the failing
\* step, in order (of all steps when none fails).
C8_StopsAtFirstFailure ==
    /\ \A k \in 1..Len(invoked) : invoked[k] = k
    /\ failedAt > 0 => (index = failedAt /\ Len(invoked) <= failedAt)
    /\ Returns =>
           LET n == IF failedAt = 0 THEN Len(plan0.steps) ELSE failedAt - 1
           IN result.diff = [k \in 1..n |-> [step |-> plan0.steps[k].op,
                                              params |-> plan0.steps[k].params]]

C8_Witness ==
    /\ Returns
    /\ Len(plan0.steps) = 3
    /\ failedAt = 2
    /\ Len(result.diff) = 1
    /\ invoked = <<1, 2>>

\* the lengths a step asks for, converted with unit u
ExpectedGeom(step, u) ==
    CASE step.op = "ADD_CUBE" -> <<_convert_length(Get(step.params, "size", FP), u)>>
      [] step.op = "ADD_SPHERE" -> <<_convert_length(Get(step.params, "radius", FP \div 2), u)>>
      [] step.op = "ADD_CYLINDER" ->
             <<_convert_length(Get(step.params, "radius", FP \div 2), u),
               _convert_length(Get(step.params, "depth", FP), u)>>
      [] step.op = "ARRAY_RADIAL" -> <<_convert_length(Get(step.params, "radius", FP), u)>>

\* C9: an object created by a step that omits its own unit has its lengths
\* converted to meters with the plan's unit.
C9_PlanUnitIsDefault ==
    \A n \in DOMAIN objects :
        (/\ objects[n].by > 0
         /\ n \in Variants(RequestedName(plan0.steps[objects[n].by]))
         /\ "units" \notin DOMAIN plan0.steps[objects[n].by].params)
            => objects[n].geom = ExpectedGeom(plan0.steps[objects[n].by], plan0.units)

\* C10: from the call on, the plan (id, prompt, units, steps and every
\* step's op, params and notes) equals the plan that was handed in.
C10_PlanNotMutated == pc # "idle" => plan = plan0

C10_Witness ==
    /\ Ended
    /\ failedAt = 3
    /\ plan = plan0
    /\ plan.steps[1].op = "BEVEL"
    /\ Len(diff) = 2

\* C11: with bpy missing, creating the executor raises AIModelerError at
\* once: no handler runs, no rollback runs, the scene is unchanged.
C11_SetupErrorWithoutBpy ==
    /\ ~bpyAvailable =>
           /\ pc \in {"new", "setup_error"}
           /\ invoked = <<>>
           /\ rollbacks = 0
           /\ objects = objects0
           /\ materials = materials0
    /\ pc = "setup_error" => (~bpyAvailable /\ raised = "AIModelerError")

C11_Witness ==
    /\ ~bpyAvailable
    /\ pc = "setup_error"
    /\ raised = "AIModelerError"
    /\ DOMAIN objects # {}

----------------------------------------------------------------------------
(* Properties of the rule-based planner *)

\* the plan under study is the one returned last
FocalPlan ==
    /\ genPlan # None
    /\ genPlan.prompt = focalPrompt
    /\ genPlan.units = focalUnits

PrimitiveOps == {"ADD_CUBE", "ADD_SPHERE", "ADD_CYLINDER"}

KindRank(op) ==
    CASE op \in PrimitiveOps -> 1
      [] op = "ARRAY_RADIAL" -> 2
      [] op = "BEVEL" -> 3
      [] op = "BOOLEAN_DIFFERENCE" -> 4
      [] op = "SET_MATERIAL" -> 5

\* C14 as stated: the steps are ordered by kind, primitives, then
\* ARRAY_RADIAL, then BEVEL, then BOOLEAN_DIFFERENCE, then SET_MATERIAL.
C14_OrderedByKind ==
    genPlan # None =>
        \A i, j \in 1..Len(genPlan.steps) :
            i < j => KindRank(genPlan.steps[i].op) <= KindRank(genPlan.steps[j].op)

\* the cutter cylinder the boolean test appends right before its difference
\* step when the prompt has no cylinder keyword
IsAppendedCutter(pl, j) ==
    /\ pl.steps[j].op = "ADD_CYLINDER"
    /\ ~WantsCylinder(pl.prompt)
    /\ j < Len(pl.steps)
    /\ pl.steps[j + 1].op = "BOOLEAN_DIFFERENCE"

\* C14 amended: the steps are ordered by kind, except for the cutter
\* cylinder appended by the boolean test, which stands right before the
\* BOOLEAN_DIFFERENCE step and so after any ARRAY_RADIAL and BEVEL step.
C14_OrderedByKindButCutter ==
    genPlan # None =>
        \A i, j \in 1..Len(genPlan.steps) :
            (i < j /\ ~IsAppendedCutter(genPlan, j))
                => KindRank(genPlan.steps[i].op) <= KindRank(genPlan.steps[j].op)

C14_Witness ==
    /\ FocalPlan
    /\ Len(genPlan.steps) = 4
    /\ genPlan.steps[1].op = "ADD_CUBE"
    /\ genPlan.steps[2].op = "BEVEL"
    /\ IsAppendedCutter(genPlan, 3)

HasMetalKeyword(p) == AnyIn({<<"u91D1", "u5C5E">>, <<"m", "e", "t", "a", "l">>}, p)

\* C15: with a boolean keyword the plan has exactly one BOOLEAN_DIFFERENCE
\* step; before it stand an ADD_CUBE step naming its target and an
\* ADD_CYLINDER step naming its cutter (the cube first in the plan, the
\* cylinder right before it, when the prompt did not ask for them); with a
\* metal keyword a SET_MATERIAL step with preset metal_brushed follows it.
C15_BooleanHasBaseAndCutter ==
    (genPlan # None /\ WantsBoolean(genPlan.prompt)) =>
        LET st == genPlan.steps
            ks == {k \in 1..Len(st) : st[k].op = "BOOLEAN_DIFFERENCE"}
        IN /\ Cardinality(ks) = 1
           /\ \A k \in ks :
                 /\ \E i \in 1..(k - 1) :
                        st[i].op = "ADD_CUBE" /\ st[i].params.name = st[k].params.target
                 /\ \E j \in 1..(k - 1) :
                        st[j].op = "ADD_CYLINDER" /\ st[j].params.name = st[k].params.cutter
                 /\ ~WantsCube(genPlan.prompt) => st[1].op = "ADD_CUBE"
                 /\ ~WantsCylinder(genPlan.prompt) => st[k - 1].op = "ADD_CYLINDER"
                 /\ HasMetalKeyword(genPlan.prompt) =>
                        \E m \in (k + 1)..Len(st) :
                            st[m].op = "SET_MATERIAL" /\ st[m].params.preset = "metal_brushed"

C15_Witness ==
    /\ FocalPlan
    /\ WantsBoolean(focalPrompt)
    /\ HasMetalKeyword(focalPrompt)
    /\ ~WantsCube(focalPrompt)
    /\ ~WantsCylinder(focalPrompt)
    /\ Len(genPlan.steps) = 4
    /\ genPlan.steps[3].op = "BOOLEAN_DIFFERENCE"

PrimitiveRank(op) ==
    CASE op = "ADD_CUBE" -> 1
      [] op = "ADD_SPHERE" -> 2
      [] op = "ADD_CYLINDER" -> 3

\* the primitive steps that come from a primitive keyword of the prompt
Detected(pl) ==
    {k \in 1..Len(pl.steps) :
        /\ pl.steps[k].op \in PrimitiveOps
        /\ pl.steps[k].notes \notin {"boolean base", "boolean cutter"}}

\* the name of the last primitive detected, 'AI_Cube' when there is none
LastDetectedName(pl) ==
    IF Detected(pl) = {} THEN "AI_Cube"
    ELSE LET last == CHOOSE k \in Detected(pl) : \A q \in Detected(pl) : q <= k
         IN pl.steps[last].params.name

\* C16: primitives stand in the order box, sphere, cylinder, and every
\* ARRAY_RADIAL source, BEVEL target and SET_MATERIAL target names the last
\* primitive detected, or 'AI_Cube' when the prompt has no primitive keyword.
C16_ModifiersBindLastPrimitive ==
    genPlan # None =>
        LET st == genPlan.steps
        IN /\ \A i, j \in 1..Len(st) :
                 (i < j /\ st[i].op \in PrimitiveOps /\ st[j].op \in PrimitiveOps)
                     => PrimitiveRank(st[i].op) < PrimitiveRank(st[j].op)
           /\ (Detected(genPlan) = {}) <=>
                 ~(WantsCube(genPlan.prompt) \/ WantsSphere(genPlan.prompt)
                     \/ WantsCylinder(genPlan.prompt))
           /\ \A k \in 1..Len(st) :
                 /\ st[k].op = "ARRAY_RADIAL" => st[k].params.source = LastDetectedName(genPlan)
                 /\ st[k].op \in {"BEVEL", "SET_MATERIAL"}
                        => st[k].params.target = LastDetectedName(genPlan)

C16_Witness ==
    /\ FocalPlan
    /\ Len(genPlan.steps) = 3
    /\ genPlan.steps[1].op = "ADD_SPHERE"
    /\ genPlan.steps[2].op = "ADD_CYLINDER"
    /\ genPlan.steps[3].op = "ARRAY_RADIAL"
    /\ genPlan.steps[3].params.source = "AI_Cylinder"

----------------------------------------------------------------------------
(* Properties of the generate cycle *)

\* none of the planner's keyword tests recognises anything in the prompt
Unrecognized(p) ==
    /\ ~WantsCube(p) /\ ~WantsSphere(p) /\ ~WantsCylinder(p)
    /\ ~WantsArray(p) /\ ~WantsBevel(p) /\ ~WantsBoolean(p)
    /\ _match_material(p) = NoValue

\* the operator's plan is the rule-based planner's
RulesPlanned == cyclePlan # None /\ ~usedRemote

\* C12: the rule-based planner always returns a plan; for a prompt without
\* any primitive, array, bevel, boolean or material keyword the plan has no
\* steps, and executing it returns success with empty objects, empty diff
\* and no error, and leaves the scene as it was.
C12_UnrecognizedPromptEmptyPlan ==
    /\ (cyc = "planned" /\ ~usedRemote) => (cyclePlan # None /\ cyclePlan = genPlan)
    /\ (RulesPlanned /\ Unrecognized(cyclePlan.prompt)) =>
          /\ cyclePlan.steps = <<>>
          /\ raised = ""
          /\ cyc # "crashed"
          /\ objects = objects0 /\ materials = materials0
          /\ Returns => result = [status |-> "success", objects |-> <<>>,
                                  diff |-> <<>>, error |-> None]

C12_Witness ==
    /\ cyc = "finished"
    /\ RulesPlanned
    /\ Unrecognized(cyclePlan.prompt)
    /\ cyclePlan.prompt # <<>>
    /\ plan = cyclePlan
    /\ result.status = "success"
    /\ DOMAIN objects # {}

\* PlannerClient.generate_plan has just ended on a decoded body
Parsed == postResult = "body" /\ clientResult # "pending" /\ response # JNull

\* the plan object of a body: top level, or under the "plan" key
PlanData(resp) == IF resp.kind = "dict" THEN Get(resp.dict, "plan", resp) ELSE resp

LacksKeys(pd) == pd.kind # "dict" \/ ~(required_keys \subseteq DOMAIN pd.dict)

\* the entries of "steps" when it is a list
StepItems(pd) ==
    IF pd.kind = "dict" /\ "steps" \in DOMAIN pd.dict /\ pd.dict["steps"].kind = "list"
    THEN pd.dict["steps"].items
    ELSE <<>>

StepLacksOpString(sd) ==
    \/ sd.kind # "dict"
    \/ "op" \notin DOMAIN sd.dict
    \/ sd.dict["op"].kind # "str"
    \/ sd.dict["op"].str = ""

StepLacksParamsObject(sd) ==
    \/ sd.kind # "dict"
    \/ "params" \notin DOMAIN sd.dict
    \/ sd.dict["params"].kind # "dict"

\* the responses C17 says are rejected
MustReject(resp) ==
    \/ LacksKeys(PlanData(resp))
    \/ \E k \in 1..Len(StepItems(PlanData(resp))) :
          \/ StepLacksOpString(StepItems(PlanData(resp))[k])
          \/ StepLacksParamsObject(StepItems(PlanData(resp))[k])

WellShaped(resp) ==
    /\ resp.kind = "dict"
    /\ PlanData(resp).kind = "dict"
    /\ "steps" \in DOMAIN PlanData(resp).dict =>
          /\ PlanData(resp).dict["steps"].kind = "list"
          /\ \A k \in 1..Len(StepItems(PlanData(resp))) :
                StepItems(PlanData(resp))[k].kind = "dict"

\* op absent, empty, null or zero
StepOpFalsy(sd) == "op" \notin DOMAIN sd.dict \/ ~Truthy(sd.dict["op"])

\* params present and not an object
StepParamsNotObject(sd) == "params" \in DOMAIN sd.dict /\ sd.dict["params"].kind # "dict"

Rejects(resp) ==
    \/ LacksKeys(PlanData(resp))
    \/ \E k \in 1..Len(StepItems(PlanData(resp))) :
          \/ StepOpFalsy(StepItems(PlanData(resp))[k])
          \/ StepParamsNotObject(StepItems(PlanData(resp))[k])

C18_PostEndsWithBodyOrHttpError ==
    /\ attempts <= max_retries
    /\ postResult = "pending" => lastOutcome \in Failures \cup {"none"}
    /\ postResult = "body" => lastOutcome = "ok"
    /\ postResult = "AIHttpError" => (attempts = max_retries /\ lastOutcome \in Failures)
    /\ postResult \in {"pending", "body", "AIHttpError"}

CycleEnded == cyc \in {"finished", "cancelled", "crashed"}

\* the remote call is over before the executor applies a step, and no
\* request is made once execute_plan was called
RemoteBeforeExecutor ==
    /\ invoked # <<>> => (remote => clientResult # "pending")
    /\ pc \notin {"new", "idle"} => cyc \in {"executing", "finished", "cancelled", "crashed"}
    /\ executed > 0 => attempts = requestsAtCall

\* C19 as stated: the remote planner call with its retries is over before
\* the first executor step, no request is made while or after execute_plan
\* runs, and every cycle executes exactly one plan.
C19_OnePlanPerCycle ==
    /\ RemoteBeforeExecutor
    /\ executed <= 1
    /\ CycleEnded => executed = 1

\* C19 amended: as stated for a cycle whose prompt is not blank; a cycle
\* with a blank prompt is cancelled before any planner is asked and
\* executes no plan.
C19_OnePlanPerPromptedCycle ==
    /\ RemoteBeforeExecutor
    /\ executed <= 1
    /\ CycleEnded =>
          IF Strip(focalPrompt) = <<>>
          THEN executed = 0 /\ attempts = 0 /\ uuids = 0 /\ cyc = "cancelled" /\ pc = "new"
          ELSE executed = 1 /\ plan0 = cyclePlan

C19_Witness ==
    /\ cyc = "finished"
    /\ remote
    /\ attempts = max_retries
    /\ clientResult = "plan"
    /\ executed = 1
    /\ Len(invoked) = 2

\* C20: rollback deletes the created objects in reverse order of their
\* registration and removes the added modifiers in reverse order of their
\* registration.
C20_RemovedInReverseOrder ==
    \A i, j \in 1..Len(removed) :
        (i < j /\ removed[i].kind = removed[j].kind) => removed[i].at > removed[j].at

\* ---------------------------------------------------------------------------
\* Rollback, unit conversion, reference checks, materials, fallback
\* ---------------------------------------------------------------------------

\* C21: in one execute_plan call _rollback is invoked exactly once when a step
\* fails and never when every step succeeds; the one invocation comes after the
\* failing handler was invoked and gave control back, and before the result
\* is built
C21_RollbackOncePerFailure ==
    /\ rollbacks = (IF failedAt # 0 THEN 1 ELSE 0)
    /\ Returns => (result.status = "success" <=> rollbacks = 0)
    /\ rollbacks = 1 =>
         /\ failure # None
         /\ plan0.steps[failedAt].op \in Handlers =>
                invoked # <<>> /\ invoked[Len(invoked)] = failedAt
         /\ pc \in {"exit", "raised"} => result = None

C21_Witness ==
    /\ Returns
    /\ failedAt = 2
    /\ rollbacks = 1
    /\ invoked = <<1, 2>>
    /\ removed # <<>>

\* C22: _rollback never raises and is idempotent: whatever the step context
\* and the scene, it completes without error, skipping registered entries that
\* are gone, and applying it a second time leaves the scene as the first
\* application left it
C22_RollbackTotalAndIdempotent ==
    rollbacks > 0 =>
        /\ raised = ""
        /\ LET again == _rollback(World, step_ctx)
           IN /\ ~again.raised
              /\ again.w.objects = objects
              /\ again.w.materials = materials

\* the conversion table as stated: centimeters and millimeters are scaled,
\* whatever the case of the token; every other token leaves the value alone
ConvertedAsStated(value, u) ==
    IF u \in {"CM", "cm", "Cm", "cM"} THEN value \div 100
    ELSE IF u \in {"MM", "mm", "Mm", "mM"} THEN value \div 1000
    ELSE value

\* the lengths a creating step asks for, converted as stated with its own unit
StatedGeom(step) ==
    LET u == Get(step.params, "units", NoValue)
    IN CASE step.op = "ADD_CUBE" -> <<ConvertedAsStated(Get(step.params, "size", FP), u)>>
         [] step.op = "ADD_SPHERE" ->
                <<ConvertedAsStated(Get(step.params, "radius", FP \div 2), u)>>
         [] step.op = "ADD_CYLINDER" ->
                <<ConvertedAsStated(Get(step.params, "radius", FP \div 2), u),
                  ConvertedAsStated(Get(step.params, "depth", FP), u)>>
         [] step.op = "ARRAY_RADIAL" ->
                <<ConvertedAsStated(Get(step.params, "radius", FP), u)>>

\* C23: a length in M or without a unit is used unchanged, CM is divided by
\* 100 and MM by 1000, whatever the case of the unit token; a length with any
\* other unit token is used unchanged and the step does not fail for it: a
\* primitive step fails only for its name, never for its unit
C23_LengthConversion ==
    /\ \A n \in DOMAIN objects :
           objects[n].by > 0 => objects[n].geom = StatedGeom(plan0.steps[objects[n].by])
    /\ (failedAt # 0 /\ plan0.steps[failedAt].op \in PrimitiveOps)
           => Get(plan0.steps[failedAt].params, "name", "") = NonString

C23_Witness ==
    /\ Returns
    /\ result.status = "success"
    /\ \E n \in DOMAIN objects :
           /\ objects[n].by > 0
           /\ Get(plan0.steps[objects[n].by].params, "units", NoValue) = "in"
           /\ objects[n].geom = <<FP, 2 * FP>>
    /\ \E n \in DOMAIN objects :
           /\ objects[n].by > 0
           /\ Get(plan0.steps[objects[n].by].params, "units", NoValue) = "mm"
           /\ objects[n].geom = <<(2 * FP) \div 1000>>

\* the parameters of a step that name objects it works on
References(step) ==
    CASE step.op = "BOOLEAN_DIFFERENCE" -> {"target", "cutter"}
      [] step.op = "ARRAY_RADIAL" -> {"source"}
      [] step.op \in {"BEVEL", "SET_MATERIAL"} -> {"target"}
      [] OTHER -> {}

\* some reference of the step is missing from its params or names no object
MissingReference(step, names) ==
    \E k \in References(step) :
        k \notin DOMAIN step.params \/ step.params[k] \notin names

\* C24: a BOOLEAN_DIFFERENCE, ARRAY_RADIAL, BEVEL or SET_MATERIAL step with a
\* reference that is missing from its params or names no object fails, and
\* its handler leaves the scene and the step context as it found them: no
\* modifier, no object, no material, nothing registered
C24_MissingReferenceFailsCleanly ==
    /\ failedAt = 0 =>
           \A k \in 1..Len(diff) :
               ~MissingReference(plan0.steps[k],
                                 {n \in DOMAIN objects : objects[n].by < k})
    /\ (failure # None
           /\ MissingReference(plan0.steps[failedAt], DOMAIN failure.before.objects))
           => failure.after = failure.before

C24_Witness ==
    /\ failure # None
    /\ plan0.steps[failedAt].op = "ARRAY_RADIAL"
    /\ MissingReference(plan0.steps[failedAt], DOMAIN failure.before.objects)
    /\ failure.before.ctx.created_objects # <<>>
    /\ DOMAIN failure.before.materials # {}

\* the material SET_MATERIAL uses for a preset
MaterialOf(preset) == "AI_" \o preset

\* the succeeded steps that are SET_MATERIAL steps
MaterialSteps_Done == {k \in 1..Len(diff) : diff[k].step = "SET_MATERIAL"}

\* C25: SET_MATERIAL is get-or-create and idempotent: after any sequence of
\* successful SET_MATERIAL steps every used preset has its material
\* 'AI_<preset>' and no other material was created; a material that existed
\* before is left as it was and a created one carries the preset's values; the
\* first slot of a target holds the material applied to it last; a target that
\* had slots keeps their number and one without slots has one; applying the
\* preset just applied once more changes nothing
C25_MaterialGetOrCreate ==
    (failedAt = 0 /\ pc \in {"loop", "done"}) =>
        /\ DOMAIN materials =
               DOMAIN materials0 \cup {MaterialOf(diff[k].params.preset) : k \in MaterialSteps_Done}
        /\ \A m \in DOMAIN materials0 : materials[m] = materials0[m]
        /\ \A k \in MaterialSteps_Done :
               LET preset == diff[k].params.preset
                   target == diff[k].params.target
                   before == IF target \in DOMAIN objects0
                             THEN Len(objects0[target].slots) ELSE 0
               IN /\ MaterialOf(preset) \notin DOMAIN materials0 =>
                         /\ materials[MaterialOf(preset)].base_color
                                = PresetCatalog[preset].base_color
                         /\ materials[MaterialOf(preset)].roughness
                                = PresetCatalog[preset].roughness
                  /\ Len(objects[target].slots) = (IF before > 0 THEN before ELSE 1)
                  /\ (\A j \in MaterialSteps_Done : j > k => diff[j].params.target # target)
                         => objects[target].slots[1] = MaterialOf(preset)
        /\ (Len(diff) \in MaterialSteps_Done /\ pc = "loop") =>
               LET again == _op_set_material(World, diff[Len(diff)].params, step_ctx, index)
               IN again.ok /\ again.w = World /\ again.ctx = step_ctx

C25_Witness ==
    /\ Returns
    /\ failedAt = 0
    /\ MaterialSteps_Done = {1, 2}
    /\ diff[1] = diff[2]
    /\ MaterialOf(diff[1].params.preset) \in DOMAIN materials0
    /\ objects0[diff[1].params.target].slots = <<"Wood">>
    /\ objects[diff[1].params.target].slots = <<MaterialOf(diff[1].params.preset)>>

\* C26: the catalog is loaded once: over any sequence of
\* ensure_material_presets_loaded and get_preset calls the preset file is read
\* at most once, and from the first load on the catalog is what that load
\* produced, also when it found no file or an empty catalog
C26_CatalogLoadedOnce ==
    /\ fileReads <= 1
    /\ loads # <<>> =>
           PRESETS = (IF presetFile = "present" THEN PresetCatalog ELSE EmptyFn)

\* the online planner was asked and raised
RemoteFailed == remote /\ clientResult \notin {"pending", "plan"}

\* C27: with an online planner configured, a failure of
\* PlannerClient.generate_plan, whatever the exception, does not end the cycle:
\* the rule-based planner is called once with the same prompt and unit, its
\* plan becomes the operator's plan and is the one executed; when the online
\* planner returns a plan the rule-based planner is not called and the online
\* plan is the one executed
C27_FallbackOnRemoteFailure ==
    /\ RemoteFailed =>
           /\ ~usedRemote
           /\ cyc = "crashed" => (executed = 1 /\ pc = "raised")
           /\ cyc # "rules" =>
                  /\ uuids = 1
                  /\ cyclePlan = genPlan
                  /\ genPlan.prompt = Strip(focalPrompt)
                  /\ genPlan.units = CycleUnits
           /\ CycleEnded => executed = 1
           /\ (executed = 1 /\ pc \notin {"new", "idle"}) => plan0 = genPlan
    /\ clientResult = "plan" =>
           /\ usedRemote
           /\ uuids = 0
           /\ genPlan = None
           /\ (executed = 1 /\ pc \notin {"new", "idle"}) => plan0 = cyclePlan

C27_Witness ==
    /\ remote
    /\ clientResult = "TypeError"
    /\ cyc = "finished"
    /\ executed = 1
    /\ plan0 = genPlan
    /\ Len(plan0.steps) > 1
    /\ result.status = "success"

\* the entries of a list
Range(q) == {q[i] : i \in 1..Len(q)}

\* C28: the frame of rollback: after a failed execution every object that was
\* in the scene before the call is still there, with every modifier it had;
\* the objects rollback deleted and the modifiers it removed are registered
\* in the step context of this call, also when the plan asks for names that
\* objects or modifiers of the scene already carry
C28_RollbackFrame ==
    failedAt # 0 =>
        /\ \A n \in DOMAIN objects0 :
               /\ n \in DOMAIN objects
               /\ objects[n].by = 0
               /\ Range(objects0[n].modifiers) \subseteq Range(objects[n].modifiers)
        /\ (DOMAIN failure.after.objects \ DOMAIN objects)
               \subseteq Range(step_ctx.created_objects)
        /\ \A n \in DOMAIN failure.after.objects \cap DOMAIN objects :
               \A m \in ModifierNames(failure.after.objects[n]) \ ModifierNames(objects[n]) :
                   <<n, m>> \in Range(step_ctx.added_modifiers)

C28_Witness ==
    /\ Returns
    /\ failedAt = 3
    /\ "A" \in DOMAIN objects0
    /\ "A.001" \in Range(step_ctx.created_objects)
    /\ <<"A", "AI_Bevel.001">> \in Range(step_ctx.added_modifiers)
    /\ "A.001" \notin DOMAIN objects
    /\ ModifierNames(objects["A"]) = {"AI_Bevel"}

\* the prompt has a primitive keyword or a boolean keyword
NamesSomething(prompt) ==
    WantsCube(prompt) \/ WantsSphere(prompt) \/ WantsCylinder(prompt) \/ WantsBoolean(prompt)

\* C29: in the plan compiled from a prompt that has a primitive keyword or a
\* boolean keyword, every object name a step refers to (ARRAY_RADIAL source,
\* BEVEL target, BOOLEAN_DIFFERENCE target and cutter, SET_MATERIAL target) is
\* the name given by a creation step at a strictly earlier position
C29_ReferencesCreatedEarlier ==
    (genPlan # None /\ NamesSomething(genPlan.prompt)) =>
        LET st == genPlan.steps
        IN \A k \in 1..Len(st) :
               \A ref \in References(st[k]) :
                   /\ ref \in DOMAIN st[k].params
                   /\ \E j \in 1..(k - 1) :
                          /\ st[j].op \in PrimitiveOps
                          /\ st[j].params.name = st[k].params[ref]

C29_Witness ==
    /\ genPlan # None
    /\ WantsBoolean(genPlan.prompt)
    /\ ~WantsCube(genPlan.prompt)
    /\ ~WantsCylinder(genPlan.prompt)
    /\ Len(genPlan.steps) = 5
    /\ genPlan.steps[1].op = "ADD_CUBE"
    /\ genPlan.steps[2].op = "BEVEL"
    /\ genPlan.steps[3].op = "ADD_CYLINDER"
    /\ genPlan.steps[4].op = "BOOLEAN_DIFFERENCE"
    /\ genPlan.steps[5].op = "SET_MATERIAL"

\* what the failing handler made before it raised
MadeObjects == DOMAIN failure.after.objects \ DOMAIN failure.before.objects

MadeMaterials == DOMAIN failure.after.materials \ DOMAIN failure.before.materials

MadeModifiers ==
    {<<n, m>> \in (DOMAIN failure.before.objects) \X {"AI_Boolean", "AI_Array", "AI_Bevel"} :
        /\ n \in DOMAIN failure.after.objects
        /\ m \in ModifierNames(failure.after.objects[n])
               \ ModifierNames(failure.before.objects[n])}

\* C30: a failing step leaves nothing of its own behind: every object and
\* modifier the failing handler created before it raised is registered in the
\* step context at the failure point, and no object, modifier or material it
\* created is in the scene once rollback has completed
C30_FailingStepLeavesNothing ==
    (failure # None /\ pc \in {"exit", "done"}) =>
        /\ MadeObjects \subseteq Range(failure.after.ctx.created_objects)
        /\ MadeModifiers \subseteq Range(failure.after.ctx.added_modifiers)
        /\ MadeObjects \cap DOMAIN objects = {}
        /\ MadeMaterials \cap DOMAIN materials = {}
        /\ \A p \in MadeModifiers :
               p[1] \in DOMAIN objects => p[2] \notin ModifierNames(objects[p[1]])
====
